---- MODULE Spec2Model ----
(***************************************************************************)
(* TicTactic: the minimax / alpha-beta search engine (src/lib/ai),         *)
(* the board and win detection (src/lib/game, src/utils/winCombos) and the *)
(* game state machine that drives them (src/hooks/useGame, app/page).      *)
(*                                                                         *)
(* A board is a function from the cell indices 0..n*n-1 to cell values.    *)
(* A cell value is a Player mark ("X" or "O") or, for an empty cell, the   *)
(* number of the cell itself, written here as its decimal string ("0",     *)
(* "1", ...) so that marks and numbers stay comparable.                    *)
(***************************************************************************)
EXTENDS Integers, Sequences, FiniteSets, TLC

\* ------------------------------------------------------------------------
\* Players and cells (src/lib/game/types, src/lib/game/board.ts)
\* ------------------------------------------------------------------------

Player == {"X", "O"}

\* typeof cellValue === 'number': a cell value that is not a Player mark
isEmptyCell(cellValue) == cellValue \notin Player

\* Array(length).keys() up to the index last: every cell holds its own index
RECURSIVE keys(_)
keys(last) ==
    IF last = 0 THEN 0 :> ToString(0)
    ELSE keys(last - 1) @@ (last :> ToString(last))

\* Array.from(Array(gridSize * gridSize).keys())
createBoard(gridSize) == keys(gridSize * gridSize - 1)

hasEmptyCells(board) == \E i \in DOMAIN board : isEmptyCell(board[i])

\* ascending list of the empty cell indices, as a set of indices
getEmptyCells(board) == {i \in DOMAIN board : isEmptyCell(board[i])}

\* ------------------------------------------------------------------------
\* Line generator (src/utils/winCombos.ts)
\* ------------------------------------------------------------------------

\* a slip in the second loop nest: the vertical lines pushed with the index
\* expression of the horizontal ones, n * row + startCol + offset
getWinCombosRowsTwice(n, winLength) ==
    LET starts == IF n - winLength + 1 > 0 THEN n - winLength + 1 ELSE 0
        horizontal ==
            [k \in 1..(n * starts) |->
                [o \in 1..winLength |->
                    n * ((k - 1) \div starts) + ((k - 1) % starts) + (o - 1)]]
        diagDown ==
            [k \in 1..(starts * starts) |->
                [o \in 1..winLength |->
                    n * (((k - 1) \div starts) + (o - 1))
                      + (((k - 1) % starts) + (o - 1))]]
        diagUp ==
            [k \in 1..(starts * starts) |->
                [o \in 1..winLength |->
                    n * (((k - 1) \div starts) + (o - 1))
                      + ((winLength - 1) + ((k - 1) % starts) - (o - 1))]]
    IN  horizontal \o horizontal \o diagDown \o diagUp

\* The four loop nests of getWinCombos, each as the sequence its pushes
\* produce: element k of a nest with an outer loop over `outer` values and an
\* inner loop over `inner` values is the line of outer index (k-1) \div inner
\* and inner index (k-1) % inner.
getWinCombos(n, winLength) ==
    LET starts == IF n - winLength + 1 > 0 THEN n - winLength + 1 ELSE 0
        horizontal ==
            [k \in 1..(n * starts) |->
                LET row == (k - 1) \div starts
                    startCol == (k - 1) % starts
                IN  [o \in 1..winLength |-> n * row + startCol + (o - 1)]]
        vertical ==
            [k \in 1..(n * starts) |->
                LET col == (k - 1) \div starts
                    startRow == (k - 1) % starts
                IN  [o \in 1..winLength |-> n * (startRow + (o - 1)) + col]]
        diagDown ==
            [k \in 1..(starts * starts) |->
                LET startRow == (k - 1) \div starts
                    startCol == (k - 1) % starts
                IN  [o \in 1..winLength |->
                        n * (startRow + (o - 1)) + (startCol + (o - 1))]]
        diagUp ==
            [k \in 1..(starts * starts) |->
                LET startRow == (k - 1) \div starts
                    startCol == (winLength - 1) + ((k - 1) % starts)
                IN  [o \in 1..winLength |->
                        n * (startRow + (o - 1)) + (startCol - (o - 1))]]
    IN  horizontal \o vertical \o diagDown \o diagUp

\* the lines of a grid size; those of the two supported boards are computed
\* once (spec section 3: "may be cached/memoized per size")
WinCombos3 == getWinCombos(3, 3)
WinCombos4 == getWinCombos(4, 4)
winCombosOf(gridSize) ==
    IF gridSize = 3 THEN WinCombos3
    ELSE IF gridSize = 4 THEN WinCombos4
    ELSE getWinCombos(gridSize, gridSize)

\* the same lines, each as the set of its cells
WinCells3 == {{WinCombos3[k][c] : c \in DOMAIN WinCombos3[k]} : k \in DOMAIN WinCombos3}
WinCells4 == {{WinCombos4[k][c] : c \in DOMAIN WinCombos4[k]} : k \in DOMAIN WinCombos4}
winCellsOf(gridSize) ==
    IF gridSize = 3 THEN WinCells3
    ELSE IF gridSize = 4 THEN WinCells4
    ELSE LET w == getWinCombos(gridSize, gridSize)
         IN  {{w[k][c] : c \in DOMAIN w[k]} : k \in DOMAIN w}

\* ------------------------------------------------------------------------
\* Win / terminal detection (src/lib/game/winDetection.ts)
\* ------------------------------------------------------------------------

\* the value null (of GameResult | null, ThinkingData | null, Player | null)
Null == [isNull |-> TRUE]

\* winCombo.every((cell) => moves.includes(cell))
match(winCombo, moves) == \A c \in DOMAIN winCombo : winCombo[c] \in moves

\* a slip in the loop: the match remembered and the loop run to its end, so
\* that the last covered line is the one returned
lastMatch(winCombos, moves) ==
    CHOOSE k \in DOMAIN winCombos :
        /\ match(winCombos[k], moves)
        /\ \A j \in (k + 1)..Len(winCombos) : ~match(winCombos[j], moves)

\* the first line of winCombos, in generation order, that moves covers
firstMatch(winCombos, moves) ==
    CHOOSE k \in DOMAIN winCombos :
        /\ match(winCombos[k], moves)
        /\ \A j \in 1..(k - 1) : ~match(winCombos[j], moves)

\* The result of the first matching line, or null.  Whether any line matches
\* is decided on the lines as cell sets; the loop over winCombos is run only
\* when one does.
checkWin(board, player, gridSize) ==
    LET moves == {i \in DOMAIN board : board[i] = player}
    IN  IF \A line \in winCellsOf(gridSize) : ~(line \subseteq moves)
        THEN Null
        ELSE [winner |-> player,
              winningCells |-> winCombosOf(gridSize)[firstMatch(winCombosOf(gridSize), moves)],
              isDraw |-> FALSE]

\* a slip after the doc comment ("board is full and no winner"): a full board
\* with a complete line not counted as a draw
checkDrawNoWinner(board) ==
    /\ ~hasEmptyCells(board)
    /\ \A player \in Player :
          checkWin(board, player,
                   IF Cardinality(DOMAIN board) = 16 THEN 4 ELSE 3) = Null

checkDraw(board) == ~hasEmptyCells(board)

\* ------------------------------------------------------------------------
\* Search engine (src/lib/ai/minimax.ts)
\* ------------------------------------------------------------------------

WIN_SCORE == 100
LOSS_SCORE == -100
DRAW_SCORE == 0

\* the bounds -Infinity / Infinity of the search window, beyond every score
Infinity == 1000000

\* the value undefined of an optional number (pruningDepth, nodesVisited, ...)
Undefined == -1

\* Math.max
Max(a, b) == IF a >= b THEN a ELSE b

\* a slip in the minimizer: Math.max where Math.min is meant
MinAsMax(a, b) == IF a >= b THEN a ELSE b

\* Math.min
Min(a, b) == IF a <= b THEN a ELSE b

deriveOutcomeDepth(score, outcome) ==
    IF outcome = "win" THEN Max(0, WIN_SCORE - score)
    ELSE IF outcome = "loss" THEN Max(0, score - LOSS_SCORE)
    ELSE Undefined

\* the MoveEvaluation a root candidate starts with
newMoveEvaluation(i) ==
    [position |-> i, score |-> 0, depth |-> 0, outcome |-> "unknown",
     pruned |-> FALSE, fullyEvaluated |-> TRUE, pruningDepth |-> Undefined,
     nodesVisited |-> Undefined, maxDepthReached |-> Undefined,
     branchesPruned |-> Undefined]

\* the MinimaxContext a search starts with
newContext ==
    [nodesEvaluated |-> 0, branchesPruned |-> 0, maxDepth |-> 0,
     terminalStates |-> [wins |-> 0, losses |-> 0, draws |-> 0],
     activeRootEvaluation |-> Null,
     rootMoveMaxDepth |-> 0, rootMoveStartNodes |-> 0, rootMovePruneStart |-> 0]

markRootMovePruned(context, depth) ==
    IF context.activeRootEvaluation = Null THEN context
    ELSE [context EXCEPT
            !.activeRootEvaluation.pruned = TRUE,
            !.activeRootEvaluation.fullyEvaluated = FALSE,
            !.activeRootEvaluation.pruningDepth =
                IF @ = Undefined THEN depth ELSE Min(@, depth)]

\* the first statements of minimax: count the node, track the depths
enterNode(context, depth) ==
    [context EXCEPT
        !.nodesEvaluated = @ + 1,
        !.maxDepth = Max(@, depth),
        !.rootMoveMaxDepth =
            IF context.activeRootEvaluation # Null THEN Max(@, depth) ELSE @]

\* slips in the terminal scores: the sign conventions of the two players
\* exchanged
winScoreSwapped(depth) == LOSS_SCORE + depth

\* the score of a position the AI has won
winScore(depth) == WIN_SCORE - depth

lossScoreSwapped(depth) == WIN_SCORE - depth

\* a slip in the loss score: the depth left out, every loss worth the same
lossScoreFlat(depth) == LOSS_SCORE

\* the score of a position the human has won
lossScore(depth) == LOSS_SCORE + depth

\* if (useAlphaBetaPruning) { ...; if (beta <= alpha) { ...; break; } }
cutoff(useAlphaBetaPruning, alpha, beta) == useAlphaBetaPruning /\ beta <= alpha

\* a slip in the cut: the wrong counter is incremented
recordCutAsNode(context, depth) ==
    markRootMovePruned([context EXCEPT !.nodesEvaluated = @ + 1], depth)

\* context.branchesPruned++; markRootMovePruned(context, depth);
recordCut(context, depth) ==
    markRootMovePruned([context EXCEPT !.branchesPruned = @ + 1], depth)

\* a slip in the loop: the board walked from its last cell down
cellsToTryDescending(board, gridSize) ==
    SelectSeq([k \in 1..(gridSize * gridSize) |-> gridSize * gridSize - k],
              LAMBDA i : isEmptyCell(board[i]))

\* the cells a for-loop over the board visits: those that hold a number when
\* the loop starts, in ascending order (every iteration restores its cell)
cellsToTry(board, gridSize) ==
    SelectSeq([k \in 1..(gridSize * gridSize) |-> k - 1],
              LAMBDA i : isEmptyCell(board[i]))

\* The variables of one activation of the recursive search.  fn names the
\* function that runs (minimax or minimaxWithDepthLimit) and at the place in
\* it: "entry" for a call, "maximizer" / "minimizer" for the for-loop of
\* that branch, about to visit the cell Head(todo) with best the running
\* best value.  maxDepth is read by minimaxWithDepthLimit only.
Boards == [0..8 -> STRING] \cup [0..15 -> STRING]
MoveEvaluations ==
    [position : Nat, score : Int, depth : Int, outcome : STRING,
     pruned : BOOLEAN, fullyEvaluated : BOOLEAN, pruningDepth : Int,
     nodesVisited : Int, maxDepthReached : Int, branchesPruned : Int]
Contexts ==
    [nodesEvaluated : Nat, branchesPruned : Nat, maxDepth : Nat,
     terminalStates : [wins : Nat, losses : Nat, draws : Nat],
     activeRootEvaluation : MoveEvaluations \cup {Null},
     rootMoveMaxDepth : Nat, rootMoveStartNodes : Nat, rootMovePruneStart : Nat]
SearchArgs ==
    [fn : STRING, at : STRING, board : Boards, player : Player,
     aiPlayer : Player, humanPlayer : Player, depth : Nat, maxDepth : Nat,
     alpha : Int, beta : Int, context : Contexts, gridSize : Nat,
     useAlphaBetaPruning : BOOLEAN, todo : Seq(Nat), best : Int]

\* what an activation returns: the value, and the context and the board as
\* it leaves them (the code mutates both in place)
Returned(val, context, board) == [val |-> val, context |-> context, board |-> board]

\* a slip in the undo: the break taken before board[i] = originalValue
maximizerIterationBreakFirst(a, call) ==
    LET i == Head(a.todo)
        originalValue == a.board[i]
        r == call[[a EXCEPT !.at = "entry", !.board[i] = a.aiPlayer,
                            !.player = a.humanPlayer, !.depth = @ + 1,
                            !.todo = <<>>, !.best = 0]]
        best == Max(a.best, r.val)
        alpha == IF a.useAlphaBetaPruning THEN Max(a.alpha, best) ELSE a.alpha
        break == cutoff(a.useAlphaBetaPruning, alpha, a.beta)
    IN  [a EXCEPT !.board = IF break THEN r.board
                            ELSE [r.board EXCEPT ![i] = originalValue],
                  !.best = best,
                  !.alpha = alpha,
                  !.context = IF break THEN recordCut(r.context, a.depth)
                              ELSE r.context,
                  !.todo = IF break THEN <<>> ELSE Tail(@)]

\* One iteration of the for-loop of the maximizer branch (the AI to move),
\* on the cell Head(a.todo): the variables after it, todo emptied by a break.
\* call is the recursive search.
maximizerIteration(a, call) ==
    LET i == Head(a.todo)
        originalValue == a.board[i]
        r == call[[a EXCEPT !.at = "entry", !.board[i] = a.aiPlayer,
                            !.player = a.humanPlayer, !.depth = @ + 1,
                            !.todo = <<>>, !.best = 0]]
        best == Max(a.best, r.val)
        alpha == IF a.useAlphaBetaPruning THEN Max(a.alpha, best) ELSE a.alpha
        break == cutoff(a.useAlphaBetaPruning, alpha, a.beta)
    IN  [a EXCEPT !.board = [r.board EXCEPT ![i] = originalValue],
                  !.best = best,
                  !.alpha = alpha,
                  !.context = IF break THEN recordCut(r.context, a.depth)
                              ELSE r.context,
                  !.todo = IF break THEN <<>> ELSE Tail(@)]

\* One iteration of the for-loop of the minimizer branch (the human to move).
minimizerIteration(a, call) ==
    LET i == Head(a.todo)
        originalValue == a.board[i]
        r == call[[a EXCEPT !.at = "entry", !.board[i] = a.humanPlayer,
                            !.player = a.aiPlayer, !.depth = @ + 1,
                            !.todo = <<>>, !.best = 0]]
        best == Min(a.best, r.val)
        beta == IF a.useAlphaBetaPruning THEN Min(a.beta, best) ELSE a.beta
        break == cutoff(a.useAlphaBetaPruning, a.alpha, beta)
    IN  [a EXCEPT !.board = [r.board EXCEPT ![i] = originalValue],
                  !.best = best,
                  !.beta = beta,
                  !.context = IF break THEN recordCut(r.context, a.depth)
                              ELSE r.context,
                  !.todo = IF break THEN <<>> ELSE Tail(@)]

\* the branch of the player to move, entered with its initial best value
enterLoop(a, context) ==
    IF a.player = a.aiPlayer
    THEN [a EXCEPT !.at = "maximizer", !.context = context,
                   !.todo = cellsToTry(a.board, a.gridSize), !.best = -Infinity]
    ELSE [a EXCEPT !.at = "minimizer", !.context = context,
                   !.todo = cellsToTry(a.board, a.gridSize), !.best = Infinity]

\* minimax(board, player, aiPlayer, humanPlayer, depth, alpha, beta, context,
\*         gridSize, useAlphaBetaPruning), its parameters the fields of a
minimax(a, call) ==
    LET aiWin == checkWin(a.board, a.aiPlayer, a.gridSize) # Null
        humanWin == checkWin(a.board, a.humanPlayer, a.gridSize) # Null
        draw == ~hasEmptyCells(a.board)
    IN  CASE aiWin ->
               Returned(winScore(a.depth),
                        [enterNode(a.context, a.depth)
                            EXCEPT !.terminalStates.wins = @ + 1], a.board)
          [] ~aiWin /\ humanWin ->
               Returned(lossScore(a.depth),
                        [enterNode(a.context, a.depth)
                            EXCEPT !.terminalStates.losses = @ + 1], a.board)
          [] ~aiWin /\ ~humanWin /\ draw ->
               Returned(DRAW_SCORE,
                        [enterNode(a.context, a.depth)
                            EXCEPT !.terminalStates.draws = @ + 1], a.board)
          [] ~aiWin /\ ~humanWin /\ ~draw ->
               call[enterLoop(a, enterNode(a.context, a.depth))]

\* ------------------------------------------------------------------------
\* Heuristic evaluation (src/lib/ai/evaluator.ts)
\* ------------------------------------------------------------------------

\* the number of cells of a line that hold the mark of player
countIn(board, line, player) ==
    Cardinality({c \in DOMAIN line : board[line[c]] = player})

\* a slip: the blocked-line check left out, so that a line with marks of both
\* players counts for the AI
evaluateLineUnblocked(board, line, aiPlayer, humanPlayer) ==
    LET aiCount == countIn(board, line, aiPlayer)
        humanCount == countIn(board, line, humanPlayer)
    IN  IF aiCount > 0 THEN 10 ^ (aiCount - 1)
        ELSE IF humanCount > 0 THEN -(10 ^ (humanCount - 1))
        ELSE 0

evaluateLine(board, line, aiPlayer, humanPlayer) ==
    LET aiCount == countIn(board, line, aiPlayer)
        humanCount == countIn(board, line, humanPlayer)
    IN  IF aiCount > 0 /\ humanCount > 0 THEN 0
        ELSE IF aiCount > 0 THEN 10 ^ (aiCount - 1)
        ELSE IF humanCount > 0 THEN -(10 ^ (humanCount - 1))
        ELSE 0

\* score += evaluateLine(...) over the lines from the k-th on
RECURSIVE evaluateFrom(_, _, _, _, _)
evaluateFrom(board, winCombos, k, aiPlayer, humanPlayer) ==
    IF k > Len(winCombos) THEN 0
    ELSE evaluateLine(board, winCombos[k], aiPlayer, humanPlayer)
         + evaluateFrom(board, winCombos, k + 1, aiPlayer, humanPlayer)

evaluate(board, aiPlayer, humanPlayer, gridSize) ==
    evaluateFrom(board, winCombosOf(gridSize), 1, aiPlayer, humanPlayer)

\* ------------------------------------------------------------------------
\* Depth-limited search (src/lib/ai/minimax.ts)
\* ------------------------------------------------------------------------

\* a slip in the cutoff: one level too late
depthReachedLate(depth, maxDepth) == depth > maxDepth

\* if (depth >= maxDepth) return evaluateFn(...)
depthReached(depth, maxDepth) == depth >= maxDepth

\* minimaxWithDepthLimit(board, player, aiPlayer, humanPlayer, depth,
\*     maxDepth, alpha, beta, context, gridSize, evaluateFn,
\*     useAlphaBetaPruning), its parameters the fields of a; evaluateFn is
\* evaluate, the only function the program passes.  Its two for-loops are
\* those of minimax, calling minimaxWithDepthLimit.
minimaxWithDepthLimit(a, call) ==
    LET aiWin == checkWin(a.board, a.aiPlayer, a.gridSize) # Null
        humanWin == checkWin(a.board, a.humanPlayer, a.gridSize) # Null
        draw == ~hasEmptyCells(a.board)
        atLimit == depthReached(a.depth, a.maxDepth)
    IN  CASE aiWin ->
               Returned(winScore(a.depth),
                        [enterNode(a.context, a.depth)
                            EXCEPT !.terminalStates.wins = @ + 1], a.board)
          [] ~aiWin /\ humanWin ->
               Returned(lossScore(a.depth),
                        [enterNode(a.context, a.depth)
                            EXCEPT !.terminalStates.losses = @ + 1], a.board)
          [] ~aiWin /\ ~humanWin /\ draw ->
               Returned(DRAW_SCORE,
                        [enterNode(a.context, a.depth)
                            EXCEPT !.terminalStates.draws = @ + 1], a.board)
          [] ~aiWin /\ ~humanWin /\ ~draw /\ atLimit ->
               Returned(evaluate(a.board, a.aiPlayer, a.humanPlayer, a.gridSize),
                        enterNode(a.context, a.depth), a.board)
          [] ~aiWin /\ ~humanWin /\ ~draw /\ ~atLimit ->
               call[enterLoop(a, enterNode(a.context, a.depth))]

\* The recursive search: an activation is a call of minimax or of
\* minimaxWithDepthLimit, or the rest of a for-loop, which ends with the
\* value of best when no cell is left.
search[a \in SearchArgs] ==
    CASE a.at = "entry" /\ a.fn = "minimax" -> minimax(a, search)
      [] a.at = "entry" /\ a.fn # "minimax" -> minimaxWithDepthLimit(a, search)
      [] a.at # "entry" /\ a.todo = <<>> ->
           Returned(a.best, a.context, a.board)
      [] a.at = "maximizer" /\ a.todo # <<>> ->
           search[maximizerIteration(a, search)]
      [] a.at = "minimizer" /\ a.todo # <<>> ->
           search[minimizerIteration(a, search)]

\* a slip at the root: the candidate is searched in the window (-Infinity, 0)
\* instead of the full one
rootCallNarrowWindow(fn, board, aiPlayer, humanPlayer, maxDepth, context, gridSize, useAlphaBetaPruning) ==
    [fn |-> fn, at |-> "entry", board |-> board, player |-> humanPlayer,
     aiPlayer |-> aiPlayer, humanPlayer |-> humanPlayer, depth |-> 0,
     maxDepth |-> maxDepth, alpha |-> -Infinity, beta |-> 0,
     context |-> context, gridSize |-> gridSize,
     useAlphaBetaPruning |-> useAlphaBetaPruning, todo |-> <<>>, best |-> 0]

\* a slip in the root call: useAlphaBetaPruning is not passed on, and the
\* callee's default (true) applies
rootCallDefaultPruning(fn, board, aiPlayer, humanPlayer, maxDepth, context, gridSize, useAlphaBetaPruning) ==
    [fn |-> fn, at |-> "entry", board |-> board, player |-> humanPlayer,
     aiPlayer |-> aiPlayer, humanPlayer |-> humanPlayer, depth |-> 0,
     maxDepth |-> maxDepth, alpha |-> -Infinity, beta |-> Infinity,
     context |-> context, gridSize |-> gridSize,
     useAlphaBetaPruning |-> TRUE, todo |-> <<>>, best |-> 0]

\* the call minimax(board, humanPlayer, aiPlayer, humanPlayer, 0, -Infinity,
\* Infinity, context, gridSize, useAlphaBetaPruning) of a root candidate
rootCall(fn, board, aiPlayer, humanPlayer, maxDepth, context, gridSize, useAlphaBetaPruning) ==
    [fn |-> fn, at |-> "entry", board |-> board, player |-> humanPlayer,
     aiPlayer |-> aiPlayer, humanPlayer |-> humanPlayer, depth |-> 0,
     maxDepth |-> maxDepth, alpha |-> -Infinity, beta |-> Infinity,
     context |-> context, gridSize |-> gridSize,
     useAlphaBetaPruning |-> useAlphaBetaPruning, todo |-> <<>>, best |-> 0]

\* a slip in the classification: the win threshold set at the immediate win
outcomeOfImmediate(moveVal) ==
    IF moveVal > 99 THEN "win"
    ELSE IF moveVal < -50 THEN "loss"
    ELSE IF moveVal = 0 THEN "draw"
    ELSE "unknown"

\* score > 50 => win; score < -50 => loss; score == 0 => draw; else unknown
outcomeOf(moveVal) ==
    IF moveVal > 50 THEN "win"
    ELSE IF moveVal < -50 THEN "loss"
    ELSE IF moveVal = 0 THEN "draw"
    ELSE "unknown"

\* a slip in the per-candidate statistics: the running total, not the delta
nodesVisitedCumulative(context) == context.nodesEvaluated

\* per-candidate statistics: deltas against the counters captured before
nodesVisitedOf(context) == context.nodesEvaluated - context.rootMoveStartNodes
branchesPrunedOf(context) == context.branchesPruned - context.rootMovePruneStart

\* the MoveEvaluation of a root candidate once its search has returned
finishMoveEvaluation(context, moveVal) ==
    LET outcome == outcomeOf(moveVal)
        outcomeDepth == deriveOutcomeDepth(moveVal, outcome)
    IN  [context.activeRootEvaluation EXCEPT
            !.nodesVisited = nodesVisitedOf(context),
            !.maxDepthReached = context.rootMoveMaxDepth,
            !.branchesPruned = branchesPrunedOf(context),
            !.score = moveVal,
            !.outcome = outcome,
            !.depth = IF outcomeDepth # Undefined THEN outcomeDepth
                      ELSE context.rootMoveMaxDepth]

\* Reset move evaluation tracking and per-move statistics
startRootMove(context, i) ==
    [context EXCEPT
        !.rootMoveStartNodes = context.nodesEvaluated,
        !.rootMoveMaxDepth = 0,
        !.rootMovePruneStart = context.branchesPruned,
        !.activeRootEvaluation = newMoveEvaluation(i)]

\* a slip in the list of best moves: the tolerance test left out, so that
\* every candidate that is not better joins the list
updateBestMovesUntested(st, i, moveVal) ==
    IF moveVal > st.bestVal
    THEN [st EXCEPT !.bestVal = moveVal, !.bestMoves = <<i>>]
    ELSE [st EXCEPT !.bestMoves = Append(@, i)]

\* Update best move (findBestMoveWithThinking): a strictly better candidate
\* replaces the list, one within 1e-6 of the best (an equal one, the scores
\* being integers) joins it
updateBestMoves(st, i, moveVal) ==
    IF moveVal > st.bestVal
    THEN [st EXCEPT !.bestVal = moveVal, !.bestMoves = <<i>>]
    ELSE IF moveVal - st.bestVal = 0
    THEN [st EXCEPT !.bestMoves = Append(@, i)]
    ELSE st

\* Update best move (findBestMoveWithDepthLimit): the first strictly better
updateBestMove(st, i, moveVal) ==
    IF moveVal > st.bestVal
    THEN [st EXCEPT !.bestMove = i, !.bestVal = moveVal]
    ELSE st

\* The variables of the for-loop over the root candidates: fn names the
\* entry point (findBestMoveWithThinking for "minimax",
\* findBestMoveWithDepthLimit for "minimaxWithDepthLimit"), st holds its
\* locals and todo the cells still to visit.
RootStates ==
    [board : Boards, context : Contexts, bestVal : Int, bestMoves : Seq(Nat),
     bestMove : Int, evaluations : Seq(MoveEvaluations)]
RootArgs ==
    [fn : STRING, st : RootStates, aiPlayer : Player, humanPlayer : Player,
     gridSize : Nat, maxDepth : Nat, useAlphaBetaPruning : BOOLEAN,
     todo : Seq(Nat)]

\* One iteration of the for-loop over the root candidates, on the cell
\* Head(x.todo): the locals after it.  call is the recursive search.
evaluateRootMove(x, call) ==
    LET i == Head(x.todo)
        originalValue == x.st.board[i]
        r == call[rootCall(x.fn, [x.st.board EXCEPT ![i] = x.aiPlayer],
                           x.aiPlayer, x.humanPlayer, x.maxDepth,
                           startRootMove(x.st.context, i), x.gridSize,
                           x.useAlphaBetaPruning)]
        moveEval == finishMoveEvaluation(r.context, r.val)
        after == [x.st EXCEPT
                    !.evaluations = Append(@, moveEval),
                    !.context = [r.context EXCEPT !.activeRootEvaluation = Null],
                    !.board = [r.board EXCEPT ![i] = originalValue]]
    IN  IF x.fn = "minimax" THEN updateBestMoves(after, i, r.val)
        ELSE updateBestMove(after, i, r.val)

\* the for-loop over the root candidates from the cell Head(x.todo) on: the
\* locals when it ends
rootLoop[x \in RootArgs] ==
    IF x.todo = <<>> THEN x.st
    ELSE rootLoop[[x EXCEPT !.st = evaluateRootMove(x, search),
                            !.todo = Tail(@)]]

\* the variables of the root loop before its first iteration
rootStart(board) ==
    [board |-> board, context |-> newContext, bestVal |-> -Infinity,
     bestMoves |-> <<>>, bestMove |-> -1, evaluations |-> <<>>]

\* Math.floor(Math.random() * bestMoves.length), or -1 for an empty list
randomIndices(bestMoves) ==
    IF Len(bestMoves) > 0 THEN 0..(Len(bestMoves) - 1) ELSE {-1}

\* the ThinkingData assembled for the chosen move (searchTime left out)
thinkingOf(st, chosenMove) ==
    [chosenMove |-> chosenMove,
     chosenScore |-> st.bestVal,
     evaluations |-> st.evaluations,
     nodesEvaluated |-> st.context.nodesEvaluated,
     branchesPruned |-> st.context.branchesPruned,
     maxDepth |-> st.context.maxDepth,
     terminalStatesFound |-> st.context.terminalStates,
     principalVariation |-> IF chosenMove >= 0 THEN <<chosenMove>> ELSE <<>>]

\* what an entry point returns, with the board as the search leaves it
Found(st, chosenMove) ==
    [move |-> chosenMove, thinking |-> thinkingOf(st, chosenMove), board |-> st.board]

\* the root loop as an entry point starts it
rootArgs(fn, board, aiPlayer, humanPlayer, gridSize, maxDepth, useAlphaBetaPruning) ==
    [fn |-> fn, st |-> rootStart(board), aiPlayer |-> aiPlayer,
     humanPlayer |-> humanPlayer, gridSize |-> gridSize, maxDepth |-> maxDepth,
     useAlphaBetaPruning |-> useAlphaBetaPruning,
     todo |-> cellsToTry(board, gridSize)]

\* The results findBestMoveWithThinking can return, one per resolution of
\* the random pick among bestMoves.
findBestMoveWithThinking(board, aiPlayer, humanPlayer, gridSize, useAlphaBetaPruning) ==
    LET st == rootLoop[rootArgs("minimax", board, aiPlayer, humanPlayer,
                                gridSize, 0, useAlphaBetaPruning)]
    IN  {Found(st, IF randomIndex >= 0 THEN st.bestMoves[randomIndex + 1] ELSE -1) :
            randomIndex \in randomIndices(st.bestMoves)}

\* The result of findBestMoveWithDepthLimit (evaluateFn is evaluate), as a
\* set of one.
findBestMoveWithDepthLimit(board, aiPlayer, humanPlayer, gridSize, maxDepth, useAlphaBetaPruning) ==
    LET st == rootLoop[rootArgs("minimaxWithDepthLimit", board, aiPlayer,
                                humanPlayer, gridSize, maxDepth,
                                useAlphaBetaPruning)]
    IN  {Found(st, st.bestMove)}

\* ------------------------------------------------------------------------
\* AIPlayer (src/lib/ai/minimax.ts, the part of aiPlayer.ts)
\* ------------------------------------------------------------------------

MAX_DEPTH_4X4 == 3

\* a slip in the dispatch: a depth limit one short of MAX_DEPTH_4X4
findBestMoveShallow(gridSize, useAlphaBetaPruning, board, aiPlayer, humanPlayer) ==
    IF gridSize = 3
    THEN findBestMoveWithThinking(board, aiPlayer, humanPlayer, gridSize,
                                  useAlphaBetaPruning)
    ELSE IF gridSize = 4
    THEN findBestMoveWithDepthLimit(board, aiPlayer, humanPlayer, gridSize,
                                    MAX_DEPTH_4X4 - 1, useAlphaBetaPruning)
    ELSE {[error |-> "Grid size not yet supported"]}

\* a thrown Error
Thrown(message) == [error |-> message]

\* AIPlayer.findBestMove of an AIPlayer built with (gridSize,
\* useAlphaBetaPruning): the results it can return
findBestMove(gridSize, useAlphaBetaPruning, board, aiPlayer, humanPlayer) ==
    IF gridSize = 3
    THEN findBestMoveWithThinking(board, aiPlayer, humanPlayer, gridSize,
                                  useAlphaBetaPruning)
    ELSE IF gridSize = 4
    THEN findBestMoveWithDepthLimit(board, aiPlayer, humanPlayer, gridSize,
                                    MAX_DEPTH_4X4, useAlphaBetaPruning)
    ELSE {Thrown("Grid size not yet supported")}

\* a slip: the fallback taken in every case, any empty cell returned
getRandomCornerMoveAnyCell(gridSize, board) ==
    {i \in DOMAIN board : isEmptyCell(board[i])}

\* AIPlayer.getRandomCornerMove: the cells it can return
getRandomCornerMove(gridSize, board) ==
    LET corners == {0, gridSize - 1, gridSize * (gridSize - 1), gridSize * gridSize - 1}
        availableCorners == {corner \in corners : isEmptyCell(board[corner])}
    IN  IF availableCorners = {} THEN {i \in DOMAIN board : isEmptyCell(board[i])}
        ELSE availableCorners

\* ------------------------------------------------------------------------
\* Game state (src/lib/game/board.ts, gameState.ts, src/hooks/useGame.ts)
\* ------------------------------------------------------------------------

\* the value null of a Player field and of winningCells
NoPlayer == "null"
NoCells == <<>>

\* a slip: the occupied-cell check left out, the mark written regardless
makeMoveOverwrites(board, index, player) == [board EXCEPT ![index] = player]

makeMove(board, index, player) ==
    IF ~isEmptyCell(board[index]) THEN Thrown("Cell is already occupied")
    ELSE [board EXCEPT ![index] = player]

createGameState(gridSize) ==
    [board |-> createBoard(gridSize), currentPlayer |-> NoPlayer,
     humanPlayer |-> NoPlayer, aiPlayer |-> NoPlayer,
     status |-> "symbol-selection", winner |-> NoPlayer,
     winningCells |-> NoCells]

setPlayers(state, humanPlayer) ==
    [state EXCEPT !.humanPlayer = humanPlayer,
                  !.aiPlayer = IF humanPlayer = "O" THEN "X" ELSE "O",
                  !.currentPlayer = "X",
                  !.status = "playing"]

\* const nextPlayer = prev.currentPlayer === 'X' ? 'O' : 'X'
nextPlayer(currentPlayer) == IF currentPlayer = "X" THEN "O" ELSE "X"

\* a slip in the order of the checks: the draw tested before the win
placeMarkDrawFirst(prev, index, gridSize, next) ==
    IF prev.status # "playing" \/ prev.currentPlayer = NoPlayer THEN prev
    ELSE IF ~isEmptyCell(prev.board[index]) THEN prev
    ELSE
        LET newBoard == makeMove(prev.board, index, prev.currentPlayer)
            winResult == checkWin(newBoard, prev.currentPlayer, gridSize)
        IN  IF checkDraw(newBoard)
            THEN [prev EXCEPT !.board = newBoard, !.status = "draw"]
            ELSE IF winResult # Null
            THEN [prev EXCEPT !.board = newBoard, !.status = "won",
                              !.winner = winResult.winner,
                              !.winningCells = winResult.winningCells]
            ELSE [prev EXCEPT !.board = newBoard, !.currentPlayer = next]

\* a slip in the guards: the status not tested, a mark placed on an empty
\* cell of a finished game
placeMarkAnyStatus(prev, index, gridSize, next) ==
    IF prev.currentPlayer = NoPlayer THEN prev
    ELSE IF ~isEmptyCell(prev.board[index]) THEN prev
    ELSE
        LET newBoard == makeMove(prev.board, index, prev.currentPlayer)
            winResult == checkWin(newBoard, prev.currentPlayer, gridSize)
        IN  IF winResult # Null
            THEN [prev EXCEPT !.board = newBoard, !.status = "won",
                              !.winner = winResult.winner,
                              !.winningCells = winResult.winningCells]
            ELSE IF checkDraw(newBoard)
            THEN [prev EXCEPT !.board = newBoard, !.status = "draw"]
            ELSE [prev EXCEPT !.board = newBoard, !.currentPlayer = next]

\* a slip in placeMark: the winner recorded is the player who moves next
placeMarkWinnerNext(prev, index, gridSize, next) ==
    IF prev.status # "playing" \/ prev.currentPlayer = NoPlayer THEN prev
    ELSE IF ~isEmptyCell(prev.board[index]) THEN prev
    ELSE
        LET newBoard == makeMove(prev.board, index, prev.currentPlayer)
            winResult == checkWin(newBoard, prev.currentPlayer, gridSize)
        IN  IF winResult # Null
            THEN [prev EXCEPT !.board = newBoard, !.status = "won",
                              !.winner = next,
                              !.winningCells = winResult.winningCells]
            ELSE IF checkDraw(newBoard)
            THEN [prev EXCEPT !.board = newBoard, !.status = "draw"]
            ELSE [prev EXCEPT !.board = newBoard, !.currentPlayer = next]

\* the state updater shared by makePlayerMove and makeAIMove; next is the
\* player who moves after a move that does not end the game
placeMark(prev, index, gridSize, next) ==
    IF prev.status # "playing" \/ prev.currentPlayer = NoPlayer THEN prev
    ELSE IF ~isEmptyCell(prev.board[index]) THEN prev
    ELSE
        LET newBoard == makeMove(prev.board, index, prev.currentPlayer)
            winResult == checkWin(newBoard, prev.currentPlayer, gridSize)
        IN  IF winResult # Null
            THEN [prev EXCEPT !.board = newBoard, !.status = "won",
                              !.winner = winResult.winner,
                              !.winningCells = winResult.winningCells]
            ELSE IF checkDraw(newBoard)
            THEN [prev EXCEPT !.board = newBoard, !.status = "draw"]
            ELSE [prev EXCEPT !.board = newBoard, !.currentPlayer = next]

\* makePlayerMove: the game state after it (Switch player)
makePlayerMove(prev, index, gridSize) ==
    placeMark(prev, index, gridSize, nextPlayer(prev.currentPlayer))

\* makeAIMove: the game state after it (Switch back to human player)
makeAIMove(prev, index, gridSize) ==
    placeMark(prev, index, gridSize, prev.humanPlayer)

isHumanTurn(state) == state.status = "playing" /\ state.currentPlayer = state.humanPlayer
isAITurn(state) == state.status = "playing" /\ state.currentPlayer = state.aiPlayer

\* board.every((cell) => typeof cell === 'number')
allEmpty(board) == \A i \in DOMAIN board : isEmptyCell(board[i])

\* ------------------------------------------------------------------------
\* State
\* ------------------------------------------------------------------------

VARIABLES
    gameState,            \* useGame: the GameState
    useAlphaBetaPruning,  \* page: the Alpha-Beta Pruning toggle
    thinkingData,         \* useAIPlayer: the ThinkingData of the last search
    isProcessingAIMove,   \* page: the ref that guards the AI effects
    calculation,          \* the calculateMove promise not yet resolved
    searchInput,          \* a position handed to the search entry points
    prunedResult,         \* what the search returned with pruning enabled
    unprunedResult,       \* what the search returned with pruning disabled
    libraryCall,          \* a call of a library function: its name and arguments
    libraryResult         \* what the call returned, and its arguments afterwards

vars == <<gameState, useAlphaBetaPruning, thinkingData, isProcessingAIMove,
          calculation, searchInput, prunedResult, unprunedResult,
          libraryCall, libraryResult>>

\* the variables of the calls of the library functions
libraryVars == <<libraryCall, libraryResult>>

\* const GRID_SIZE = 3 (the grid the page starts with)
GRID_SIZE == 3

\* ------------------------------------------------------------------------
\* The game on the page (app/page.tsx, useGame, useAIPlayer), 3x3
\* ------------------------------------------------------------------------

InitGame ==
    /\ libraryCall = Null
    /\ libraryResult = Null
    /\ gameState = createGameState(GRID_SIZE)
    /\ useAlphaBetaPruning \in BOOLEAN
    /\ thinkingData = Null
    /\ isProcessingAIMove = FALSE
    /\ calculation = Null
    /\ searchInput = Null
    /\ prunedResult = Null
    /\ unprunedResult = Null

\* SymbolSelector onSelect, shown while status is 'symbol-selection'
SelectSymbol(player) ==
    /\ gameState.status = "symbol-selection"
    /\ gameState' = setPlayers(gameState, player)
    /\ UNCHANGED <<useAlphaBetaPruning, thinkingData, isProcessingAIMove,
                   calculation, searchInput, prunedResult, unprunedResult>>
    /\ UNCHANGED libraryVars

\* handleCellClick
CellClick(index) ==
    /\ isHumanTurn(gameState)
    /\ gameState' = makePlayerMove(gameState, index, GRID_SIZE)
    /\ UNCHANGED <<useAlphaBetaPruning, thinkingData, isProcessingAIMove,
                   calculation, searchInput, prunedResult, unprunedResult>>
    /\ UNCHANGED libraryVars

\* the effect "Handle AI's first move when AI is X"
AIFirstMove ==
    /\ gameState.status = "playing"
    /\ gameState.currentPlayer = "X"
    /\ gameState.aiPlayer = "X"
    /\ allEmpty(gameState.board)
    /\ ~isProcessingAIMove
    /\ \E cornerMove \in getRandomCornerMove(GRID_SIZE, gameState.board) :
          gameState' = makeAIMove(gameState, cornerMove, GRID_SIZE)
    /\ UNCHANGED <<useAlphaBetaPruning, thinkingData, isProcessingAIMove,
                   calculation, searchInput, prunedResult, unprunedResult>>
    /\ UNCHANGED libraryVars

\* the effect "Handle AI move after human move": calculateMove is called and
\* schedules the search on a timer
AIMoveStart ==
    /\ isAITurn(gameState)
    /\ gameState.aiPlayer # NoPlayer
    /\ gameState.humanPlayer # NoPlayer
    /\ ~allEmpty(gameState.board)
    /\ ~isProcessingAIMove
    /\ isProcessingAIMove' = TRUE
    /\ calculation' = [board |-> gameState.board,
                       aiPlayer |-> gameState.aiPlayer,
                       humanPlayer |-> gameState.humanPlayer,
                       gridSize |-> GRID_SIZE,
                       useAlphaBetaPruning |-> useAlphaBetaPruning]
    /\ UNCHANGED <<gameState, useAlphaBetaPruning, thinkingData, searchInput,
                   prunedResult, unprunedResult>>
    /\ UNCHANGED libraryVars

\* the timer of calculateMove fires: the search runs, thinkingData is set,
\* the promise resolves and handleAIMove plays the move
AIMoveComplete ==
    /\ calculation # Null
    /\ \E result \in findBestMove(calculation.gridSize,
                                  calculation.useAlphaBetaPruning,
                                  calculation.board, calculation.aiPlayer,
                                  calculation.humanPlayer) :
          /\ thinkingData' = result.thinking
          /\ gameState' = makeAIMove(gameState, result.move, GRID_SIZE)
    /\ isProcessingAIMove' = FALSE
    /\ calculation' = Null
    /\ UNCHANGED <<useAlphaBetaPruning, searchInput, prunedResult, unprunedResult>>
    /\ UNCHANGED libraryVars

NextGame ==
    \/ \E player \in Player : SelectSymbol(player)
    \/ \E index \in 0..(GRID_SIZE * GRID_SIZE - 1) : CellClick(index)
    \/ AIFirstMove
    \/ AIMoveStart
    \/ AIMoveComplete

SpecGame == InitGame /\ [][NextGame]_vars

\* ------------------------------------------------------------------------
\* Self-play: both sides move with findBestMoveWithThinking, 3x3
\* ------------------------------------------------------------------------

\* a position handed to the search: the board and the side the search
\* plays for
Input(board, aiPlayer, gridSize) ==
    [board |-> board, aiPlayer |-> aiPlayer,
     humanPlayer |-> nextPlayer(aiPlayer), gridSize |-> gridSize]

InitSelfPlay ==
    /\ libraryCall = Null
    /\ libraryResult = Null
    /\ searchInput = Input(createBoard(GRID_SIZE), "X", GRID_SIZE)
    /\ useAlphaBetaPruning \in BOOLEAN
    /\ thinkingData = Null
    /\ gameState = createGameState(GRID_SIZE)
    /\ isProcessingAIMove = FALSE
    /\ calculation = Null
    /\ prunedResult = Null
    /\ unprunedResult = Null

\* somebody holds a complete line, or no cell is left
isOver(board, gridSize) ==
    \/ checkWin(board, "X", gridSize) # Null
    \/ checkWin(board, "O", gridSize) # Null
    \/ checkDraw(board)

\* the side to move plays the move findBestMoveWithThinking returns for it
SelfPlayMove ==
    /\ ~isOver(searchInput.board, searchInput.gridSize)
    /\ \E result \in findBestMoveWithThinking(searchInput.board,
                        searchInput.aiPlayer, searchInput.humanPlayer,
                        searchInput.gridSize, useAlphaBetaPruning) :
          /\ thinkingData' = result.thinking
          /\ searchInput' = Input(makeMove(result.board, result.move,
                                           searchInput.aiPlayer),
                                  searchInput.humanPlayer, searchInput.gridSize)
    /\ UNCHANGED <<gameState, useAlphaBetaPruning, isProcessingAIMove,
                   calculation, prunedResult, unprunedResult>>
    /\ UNCHANGED libraryVars

NextSelfPlay == SelfPlayMove

SpecSelfPlay == InitSelfPlay /\ [][NextSelfPlay]_vars

\* what every SelfPlayMove does to the position, the choice of the cell
\* apart: while the game is not over the side to move marks an empty cell
\* and the turn passes.  It is enabled exactly when SelfPlayMove is, and a
\* step of SpecSelfPlay that is a MarkPlaced step is a SelfPlayMove step.
MarkPlaced ==
    /\ ~isOver(searchInput.board, searchInput.gridSize)
    /\ \E i \in DOMAIN searchInput.board :
          /\ isEmptyCell(searchInput.board[i])
          /\ searchInput' = Input(makeMove(searchInput.board, i,
                                           searchInput.aiPlayer),
                                  searchInput.humanPlayer, searchInput.gridSize)

\* the game is played to its end: a side that can move does move
SpecSelfPlayFair == SpecSelfPlay /\ WF_searchInput(MarkPlaced)

\* ------------------------------------------------------------------------
\* The search entry points on given positions, pruning on and off
\* ------------------------------------------------------------------------

\* 3x3 positions have at most MaxEmpty empty cells
MaxEmpty == 6

\* 4x4 positions have at most MaxEmpty4 empty cells
MaxEmpty4 == 7

\* the cells 0..last of a board with the marks of X on xs and of O on os
RECURSIVE marked(_, _, _)
marked(last, xs, os) ==
    LET value == IF last \in xs THEN "X"
                 ELSE IF last \in os THEN "O" ELSE ToString(last)
    IN  IF last = 0 THEN 0 :> value
        ELSE marked(last - 1, xs, os) @@ (last :> value)

hasLine(gridSize, cells) == \E line \in winCellsOf(gridSize) : line \subseteq cells

\* X always goes first: the position with X on xs and O on os, for the side
\* to move
Position(gridSize, xs, os) ==
    Input(marked(gridSize * gridSize - 1, xs, os),
          IF Cardinality(xs) = Cardinality(os) THEN "X" ELSE "O", gridSize)

\* the marks a game can have placed while nobody holds a line
isLegal(gridSize, xs, os) ==
    /\ Cardinality(xs) - Cardinality(os) \in {0, 1}
    /\ ~hasLine(gridSize, xs)
    /\ ~hasLine(gridSize, os)

\* the 3x3 positions of a game in progress with at most MaxEmpty empty cells
Positions3 ==
    UNION {{Position(3, xs, os) :
               os \in {o \in SUBSET ((0..8) \ xs) :
                          /\ 9 - Cardinality(xs) - Cardinality(o) \in 1..MaxEmpty
                          /\ isLegal(3, xs, o)}} :
           xs \in SUBSET (0..8)}

\* a drawn 4x4 game, and the cells of its first row, first column and main
\* diagonal
Drawn4X == {0, 1, 6, 7, 8, 9, 14, 15}
Drawn4O == (0..15) \ Drawn4X
Cleared4 == {0, 1, 2, 3, 4, 5, 8, 10, 12, 15}

\* the 4x4 positions that lead to the drawn game, with at most MaxEmpty4
\* empty cells, all of them among Cleared4
Positions4 ==
    {Position(4, Drawn4X \ cleared, Drawn4O \ cleared) :
        cleared \in {c \in SUBSET Cleared4 :
                        /\ Cardinality(c) \in 1..MaxEmpty4
                        /\ isLegal(4, Drawn4X \ c, Drawn4O \ c)}}

InitSearch ==
    /\ libraryCall = Null
    /\ libraryResult = Null
    /\ searchInput \in Positions3 \cup Positions4
    /\ prunedResult = Null
    /\ unprunedResult = Null
    /\ useAlphaBetaPruning = TRUE
    /\ thinkingData = Null
    /\ gameState = createGameState(GRID_SIZE)
    /\ isProcessingAIMove = FALSE
    /\ calculation = Null

\* the position is searched twice: by AIPlayer(gridSize, true).findBestMove
\* and by AIPlayer(gridSize, false).findBestMove
SearchBothWays ==
    /\ prunedResult = Null
    /\ unprunedResult = Null
    /\ prunedResult' \in findBestMove(searchInput.gridSize, TRUE,
                            searchInput.board, searchInput.aiPlayer,
                            searchInput.humanPlayer)
    /\ unprunedResult' \in findBestMove(searchInput.gridSize, FALSE,
                              searchInput.board, searchInput.aiPlayer,
                              searchInput.humanPlayer)
    /\ UNCHANGED <<gameState, useAlphaBetaPruning, thinkingData,
                   isProcessingAIMove, calculation, searchInput>>
    /\ UNCHANGED libraryVars

NextSearch == SearchBothWays

SpecSearch == InitSearch /\ [][NextSearch]_vars

\* ------------------------------------------------------------------------
\* Properties of the search entry points (SpecSearch)
\* ------------------------------------------------------------------------

\* both searches of the position have returned
searched == prunedResult # Null /\ unprunedResult # Null

\* the empty cells where a mark of player completes a line
winningCells(board, player, gridSize) ==
    {i \in getEmptyCells(board) :
        checkWin(makeMove(board, i, player), player, gridSize) # Null}

\* the position was searched by findBestMoveWithThinking
thinkingSearched == searched /\ searchInput.gridSize = 3

\* the AI can complete a line with one mark
aiCanWin ==
    winningCells(searchInput.board, searchInput.aiPlayer, searchInput.gridSize) # {}

\* C2: on every non-terminal 3x3 board where the AI can complete a line with
\* one mark, findBestMoveWithThinking returns a cell that completes an AI
\* line and reports a chosenScore above 50, with pruning on and off and for
\* every resolution of the tie-break.
C2_WinningMoveTaken ==
    (thinkingSearched /\ aiCanWin) =>
        \A r \in {prunedResult, unprunedResult} :
            /\ r.move \in winningCells(searchInput.board, searchInput.aiPlayer, 3)
            /\ r.thinking.chosenScore > 50

\* a searched 3x3 position where the AI can complete a line in two ways and
\* the human threatens a line too
C2_Witness ==
    /\ thinkingSearched
    /\ Cardinality(winningCells(searchInput.board, searchInput.aiPlayer, 3)) = 2
    /\ winningCells(searchInput.board, searchInput.humanPlayer, 3) # {}

\* the human threatens exactly one cell and the AI cannot win at once
mustBlock ==
    /\ ~aiCanWin
    /\ Cardinality(winningCells(searchInput.board, searchInput.humanPlayer,
                                searchInput.gridSize)) = 1

\* C3: on every non-terminal 3x3 board where the AI has no immediately
\* winning cell and the human has exactly one cell c that would complete a
\* human line, findBestMoveWithThinking returns c, with pruning on and off.
C3_BlockTaken ==
    (thinkingSearched /\ mustBlock) =>
        \A r \in {prunedResult, unprunedResult} :
            r.move \in winningCells(searchInput.board, searchInput.humanPlayer, 3)

\* a searched 3x3 position with a single threat to block, where blocking
\* is the only move that does not lose
C3_Witness ==
    /\ thinkingSearched
    /\ mustBlock
    /\ Cardinality({k \in DOMAIN unprunedResult.thinking.evaluations :
                       unprunedResult.thinking.evaluations[k].outcome = "loss"})
         = Len(unprunedResult.thinking.evaluations) - 1
    /\ Len(unprunedResult.thinking.evaluations) >= 4

\* C7: for the same board and players, the search with pruning enabled and
\* the search with pruning disabled return the same chosen move and the same
\* chosenScore (findBestMoveWithThinking on 3x3, findBestMoveWithDepthLimit
\* on 4x4).
C7_SameMoveAndScore ==
    searched =>
        /\ prunedResult.move = unprunedResult.move
        /\ prunedResult.thinking.chosenScore = unprunedResult.thinking.chosenScore

\* C8: for the same board and players, nodesEvaluated of the search with
\* pruning is at most nodesEvaluated of the search without, and so is the
\* nodesVisited of every root candidate.
C8_PruningVisitsNoMore ==
    searched =>
        /\ prunedResult.thinking.nodesEvaluated
             <= unprunedResult.thinking.nodesEvaluated
        /\ \A k \in DOMAIN prunedResult.thinking.evaluations :
              prunedResult.thinking.evaluations[k].nodesVisited
                <= unprunedResult.thinking.evaluations[k].nodesVisited

\* a searched position where pruning cut branches and saved nodes, for the
\* whole search and for a root candidate; one of each entry point exists
C8_Witness ==
    /\ searched
    /\ searchInput.gridSize = 4
    /\ prunedResult.thinking.branchesPruned > 0
    /\ prunedResult.thinking.nodesEvaluated < unprunedResult.thinking.nodesEvaluated
    /\ \E k \in DOMAIN prunedResult.thinking.evaluations :
          prunedResult.thinking.evaluations[k].nodesVisited
            < unprunedResult.thinking.evaluations[k].nodesVisited

\* the sum of a statistic over the root MoveEvaluations from the k-th on
RECURSIVE sumFrom(_, _, _)
sumFrom(evaluations, k, statistic) ==
    IF k > Len(evaluations) THEN 0
    ELSE (IF statistic = "nodesVisited" THEN evaluations[k].nodesVisited
          ELSE evaluations[k].branchesPruned)
         + sumFrom(evaluations, k + 1, statistic)

statsAligned(thinking) ==
    /\ sumFrom(thinking.evaluations, 1, "nodesVisited") = thinking.nodesEvaluated
    /\ sumFrom(thinking.evaluations, 1, "branchesPruned") = thinking.branchesPruned

\* C9: for every board and both entry points, the nodesVisited of the
\* returned root MoveEvaluations sum to thinking.nodesEvaluated and their
\* branchesPruned sum to thinking.branchesPruned.
C9_StatsSumToTotals ==
    searched => statsAligned(prunedResult.thinking) /\ statsAligned(unprunedResult.thinking)

\* a searched 4x4 position with several root candidates, cuts under more
\* than one of them
C9_Witness ==
    /\ searched
    /\ searchInput.gridSize = 4
    /\ Cardinality({k \in DOMAIN prunedResult.thinking.evaluations :
                       prunedResult.thinking.evaluations[k].branchesPruned > 0}) >= 2

\* C10: with useAlphaBetaPruning false the search ends with branchesPruned
\* = 0, and every root MoveEvaluation has pruned = false, fullyEvaluated =
\* true and pruningDepth undefined.
C10_NothingPrunedWhenDisabled ==
    searched =>
        /\ unprunedResult.thinking.branchesPruned = 0
        /\ \A k \in DOMAIN unprunedResult.thinking.evaluations :
              /\ unprunedResult.thinking.evaluations[k].pruned = FALSE
              /\ unprunedResult.thinking.evaluations[k].fullyEvaluated = TRUE
              /\ unprunedResult.thinking.evaluations[k].pruningDepth = Undefined
              /\ unprunedResult.thinking.evaluations[k].branchesPruned = 0

\* a searched position where the search with pruning marks a root candidate
\* pruned, and the search without pruning has run on it
C10_Witness ==
    /\ searched
    /\ \E k \in DOMAIN prunedResult.thinking.evaluations :
          /\ prunedResult.thinking.evaluations[k].pruned
          /\ prunedResult.thinking.evaluations[k].pruningDepth # Undefined
    /\ Len(unprunedResult.thinking.evaluations) >= 2

\* the cells that hold a mark
marks(board) == {i \in DOMAIN board : ~isEmptyCell(board[i])}

\* ------------------------------------------------------------------------
\* Properties of self-play (SpecSelfPlayFair)
\* ------------------------------------------------------------------------

\* neither player holds a complete line
noLine(board, gridSize) ==
    /\ checkWin(board, "X", gridSize) = Null
    /\ checkWin(board, "O", gridSize) = Null

\* the search of the empty board has returned and its move is on the board
openingSearched ==
    /\ thinkingData # Null
    /\ Cardinality(marks(searchInput.board)) = 1

\* C4: on the empty 3x3 board the full search (findBestMoveWithThinking,
\* pruning on or off) reports a chosenScore of exactly 0.
C4_EmptyBoardScoresZero ==
    openingSearched => thinkingData.chosenScore = 0

\* the empty board has been searched without pruning, every one of the 9
\* root candidates in full
C4_Witness ==
    /\ openingSearched
    /\ ~useAlphaBetaPruning
    /\ Len(thinkingData.evaluations) = 9
    /\ thinkingData.branchesPruned = 0

\* C5: self-play from the empty 3x3 board, both sides moving with
\* findBestMoveWithThinking, always ends in a draw: neither player ever
\* holds a complete line and the board fills, with pruning on and off and
\* for every resolution of the tie-break.
C5_SelfPlayEndsInDraw ==
    /\ [](noLine(searchInput.board, searchInput.gridSize))
    /\ <>(checkDraw(searchInput.board))

\* a game of self-play without pruning has ended with the board full and no
\* line
C5_Witness ==
    /\ ~useAlphaBetaPruning
    /\ thinkingData # Null
    /\ checkDraw(searchInput.board)
    /\ noLine(searchInput.board, searchInput.gridSize)

\* C6: on the empty 3x3 board findBestMoveWithThinking always returns one of
\* the corner cells 0, 2, 6 or 8.
C6_OpeningIsCorner ==
    openingSearched =>
        /\ thinkingData.chosenMove \in {0, 2, 6, 8}
        /\ marks(searchInput.board) \subseteq {0, 2, 6, 8}

\* ------------------------------------------------------------------------
\* Properties of the game on the page (SpecGame)
\* ------------------------------------------------------------------------

\* C1: on the 3x3 board the AI is unbeatable: in every game from the empty
\* board, for every sequence of legal human moves and every resolution of
\* the random corner opening and of the tie-break, with pruning on or off,
\* the human never holds a complete line.
C1_HumanNeverWins ==
    gameState.humanPlayer # NoPlayer =>
        /\ checkWin(gameState.board, gameState.humanPlayer, GRID_SIZE) = Null
        /\ gameState.winner # gameState.humanPlayer

\* a game the AI opened as X with a random corner and searched without
\* pruning has ended in a draw
C1_Witness ==
    /\ gameState.status = "draw"
    /\ gameState.aiPlayer = "X"
    /\ ~useAlphaBetaPruning
    /\ thinkingData # Null

\* ------------------------------------------------------------------------
\* The library functions called on their own (getWinCombos, checkWin,
\* checkDraw, makeMove, evaluate, findBestMoveWithDepthLimit)
\* ------------------------------------------------------------------------

\* getWinCombos is called with n in -MaxNegative..MaxGridSize and winLength
\* in -MaxNegative..MaxWinLength, 4x4 threat positions have at most MaxCleared4
\* marks of the base position taken back, makeMove is called on the 3x3
\* boards with at most MaxMarksMove marks
MaxNegative == 1
MaxGridSize == 4
MaxWinLength == 5
MaxCleared4 == 2
MaxMarksMove == 4

\* every 3x3 board on which X has as many marks as O or one more, a complete
\* line or not
Boards3 ==
    UNION {{marked(8, xs, os) :
               os \in {o \in SUBSET ((0..8) \ xs) :
                          Cardinality(xs) - Cardinality(o) \in {0, 1}}} :
           xs \in SUBSET (0..8)}

\* those of them with at most MaxMarksMove marks
MoveBoards3 ==
    {board \in Boards3 : Cardinality(marks(board)) <= MaxMarksMove}

\* a 4x4 position in which X, to move, can complete the third row (cell 8)
\* and the diagonal 3-6-9-12 (cell 12)
Threat4X == {3, 6, 9, 10, 11}
Threat4O == {0, 1, 5, 7, 15}

\* the 4x4 positions that lead to it, with at most MaxCleared4 marks fewer
Threats4 ==
    {Position(4, Threat4X \ cleared, Threat4O \ cleared) :
        cleared \in {c \in SUBSET (Threat4X \cup Threat4O) :
                        /\ Cardinality(c) <= MaxCleared4
                        /\ isLegal(4, Threat4X \ c, Threat4O \ c)}}

\* the boards of the 4x4 positions, and the boards one mark of the side to
\* move later (some of them won)
Boards4 ==
    LET positions == Positions4 \cup Threats4
    IN  {p.board : p \in positions}
        \cup UNION {{makeMove(p.board, i, p.aiPlayer) :
                        i \in getEmptyCells(p.board)} : p \in positions}

\* the boards of a game that is over: a complete line, or no empty cell; the
\* 4x4 ones are the won boards of Boards4 and the board of the drawn game
TerminalBoards3 == {board \in Boards3 : isOver(board, 3)}
TerminalBoards4 ==
    {board \in Boards4 : isOver(board, 4)}
        \cup {marked(15, Drawn4X, Drawn4O)}

\* the positions AIPlayer.findBestMove is called on: 3x3 positions with at
\* most MaxEmptyDispatch empty cells, the 4x4 threat positions, and the empty
\* board of every other grid size up to MaxGridSize + 1
MaxEmptyDispatch == 5
DispatchPositions ==
    {p \in Positions3 :
        Cardinality(getEmptyCells(p.board)) <= MaxEmptyDispatch}
        \cup Threats4
        \cup {Input(createBoard(gridSize), "X", gridSize) :
                 gridSize \in (1..(MaxGridSize + 1)) \ {3, 4}}

\* board.length is gridSize * gridSize
gridSizeOf(board) == IF Cardinality(DOMAIN board) = 16 THEN 4 ELSE 3

\* the boards the library functions are called on
LibraryBoards == Boards3 \cup Boards4

\* the call is one of: getWinCombos(n) (winLength defaulted),
\* getWinCombos(n, winLength), checkWin(board, player, gridSize),
\* checkDraw(board), makeMove(board, index, player), evaluate(board,
\* aiPlayer, humanPlayer, gridSize), findBestMoveWithThinking(board,
\* aiPlayer, humanPlayer, gridSize, useAlphaBetaPruning),
\* findBestMoveWithDepthLimit(board, aiPlayer, humanPlayer, gridSize,
\* maxDepth, evaluate, useAlphaBetaPruning), new AIPlayer(gridSize,
\* useAlphaBetaPruning).findBestMove(board, aiPlayer, humanPlayer)
isLibraryCall(call) ==
    \/ \E n \in (-MaxNegative)..MaxGridSize :
          call = [fn |-> "getWinCombos", n |-> n]
    \/ \E n \in (-MaxNegative)..MaxGridSize, winLength \in (-MaxNegative)..MaxWinLength :
          call = [fn |-> "getWinCombos", n |-> n, winLength |-> winLength]
    \/ \E board \in LibraryBoards, player \in Player :
          call = [fn |-> "checkWin", board |-> board, player |-> player,
                  gridSize |-> gridSizeOf(board)]
    \/ \E board \in LibraryBoards :
          call = [fn |-> "checkDraw", board |-> board]
    \/ \E board \in MoveBoards3, index \in 0..8, player \in Player :
          call = [fn |-> "makeMove", board |-> board, index |-> index,
                  player |-> player]
    \/ \E board \in LibraryBoards, aiPlayer \in Player :
          call = [fn |-> "evaluate", board |-> board, aiPlayer |-> aiPlayer,
                  humanPlayer |-> nextPlayer(aiPlayer),
                  gridSize |-> gridSizeOf(board)]
    \/ \E board \in TerminalBoards3, aiPlayer \in Player, useAlphaBeta \in BOOLEAN :
          call = [fn |-> "findBestMoveWithThinking", board |-> board,
                  aiPlayer |-> aiPlayer, humanPlayer |-> nextPlayer(aiPlayer),
                  gridSize |-> 3, useAlphaBetaPruning |-> useAlphaBeta]
    \/ \E board \in TerminalBoards4, aiPlayer \in Player, useAlphaBeta \in BOOLEAN :
          call = [fn |-> "findBestMoveWithDepthLimit", board |-> board,
                  aiPlayer |-> aiPlayer, humanPlayer |-> nextPlayer(aiPlayer),
                  gridSize |-> 4, maxDepth |-> MAX_DEPTH_4X4,
                  useAlphaBetaPruning |-> useAlphaBeta]
    \/ \E p \in DispatchPositions, useAlphaBeta \in BOOLEAN :
          call = [fn |-> "findBestMove", gridSize |-> p.gridSize,
                  useAlphaBetaPruning |-> useAlphaBeta, board |-> p.board,
                  aiPlayer |-> p.aiPlayer, humanPlayer |-> p.humanPlayer]
    \/ \E p \in Threats4, useAlphaBeta \in BOOLEAN :
          call = [fn |-> "findBestMoveWithDepthLimit", board |-> p.board,
                  aiPlayer |-> p.aiPlayer, humanPlayer |-> p.humanPlayer,
                  gridSize |-> p.gridSize, maxDepth |-> MAX_DEPTH_4X4,
                  useAlphaBetaPruning |-> useAlphaBeta]

InitLibrary ==
    /\ isLibraryCall(libraryCall)
    /\ libraryResult = Null
    /\ searchInput = Null
    /\ prunedResult = Null
    /\ unprunedResult = Null
    /\ useAlphaBetaPruning = TRUE
    /\ thinkingData = Null
    /\ gameState = createGameState(GRID_SIZE)
    /\ isProcessingAIMove = FALSE
    /\ calculation = Null

\* what a call leaves behind: the value it returned (or the error it threw)
\* and the board it was given, as the call leaves it
Left(value, board) == [value |-> value, board |-> board]

\* a slip in the default: the three of the classic board where n is meant
winLengthDefaultThree(call) ==
    IF "winLength" \in DOMAIN call THEN call.winLength ELSE 3

\* winLength: number = n
winLengthOf(call) ==
    IF "winLength" \in DOMAIN call THEN call.winLength ELSE call.n

GetWinCombos ==
    /\ libraryCall.fn = "getWinCombos"
    /\ libraryResult = Null
    /\ libraryResult' =
          [value |-> getWinCombos(libraryCall.n, winLengthOf(libraryCall))]
    /\ UNCHANGED <<libraryCall, gameState, useAlphaBetaPruning, thinkingData,
                   isProcessingAIMove, calculation, searchInput, prunedResult,
                   unprunedResult>>

\* checkWin reads the board (board.reduce) and writes nothing to it
CheckWin ==
    /\ libraryCall.fn = "checkWin"
    /\ libraryResult = Null
    /\ libraryResult' =
          Left(checkWin(libraryCall.board, libraryCall.player,
                        libraryCall.gridSize),
               libraryCall.board)
    /\ UNCHANGED <<libraryCall, gameState, useAlphaBetaPruning, thinkingData,
                   isProcessingAIMove, calculation, searchInput, prunedResult,
                   unprunedResult>>

CheckDraw ==
    /\ libraryCall.fn = "checkDraw"
    /\ libraryResult = Null
    /\ libraryResult' = Left(checkDraw(libraryCall.board), libraryCall.board)
    /\ UNCHANGED <<libraryCall, gameState, useAlphaBetaPruning, thinkingData,
                   isProcessingAIMove, calculation, searchInput, prunedResult,
                   unprunedResult>>

\* makeMove writes to newBoard, a copy ([...board]), never to board
MakeMove ==
    /\ libraryCall.fn = "makeMove"
    /\ libraryResult = Null
    /\ libraryResult' =
          Left(makeMove(libraryCall.board, libraryCall.index,
                        libraryCall.player),
               libraryCall.board)
    /\ UNCHANGED <<libraryCall, gameState, useAlphaBetaPruning, thinkingData,
                   isProcessingAIMove, calculation, searchInput, prunedResult,
                   unprunedResult>>

\* evaluate reads the board (board[index]) and writes nothing to it
Evaluate ==
    /\ libraryCall.fn = "evaluate"
    /\ libraryResult = Null
    /\ libraryResult' =
          Left(evaluate(libraryCall.board, libraryCall.aiPlayer,
                        libraryCall.humanPlayer, libraryCall.gridSize),
               libraryCall.board)
    /\ UNCHANGED <<libraryCall, gameState, useAlphaBetaPruning, thinkingData,
                   isProcessingAIMove, calculation, searchInput, prunedResult,
                   unprunedResult>>

\* findBestMoveWithThinking marks and restores the cells of the board it is
\* given (board[i] = aiPlayer ... board[i] = originalValue)
FindBestMoveWithThinking ==
    /\ libraryCall.fn = "findBestMoveWithThinking"
    /\ libraryResult = Null
    /\ \E r \in findBestMoveWithThinking(libraryCall.board,
                      libraryCall.aiPlayer, libraryCall.humanPlayer,
                      libraryCall.gridSize, libraryCall.useAlphaBetaPruning) :
          libraryResult' = Left([move |-> r.move, thinking |-> r.thinking],
                                r.board)
    /\ UNCHANGED <<libraryCall, gameState, useAlphaBetaPruning, thinkingData,
                   isProcessingAIMove, calculation, searchInput, prunedResult,
                   unprunedResult>>

\* findBestMoveWithDepthLimit marks and restores the cells of the board it is
\* given (board[i] = aiPlayer ... board[i] = originalValue)
FindBestMoveWithDepthLimit ==
    /\ libraryCall.fn = "findBestMoveWithDepthLimit"
    /\ libraryResult = Null
    /\ \E r \in findBestMoveWithDepthLimit(libraryCall.board,
                      libraryCall.aiPlayer, libraryCall.humanPlayer,
                      libraryCall.gridSize, libraryCall.maxDepth,
                      libraryCall.useAlphaBetaPruning) :
          libraryResult' = Left([move |-> r.move, thinking |-> r.thinking],
                                r.board)
    /\ UNCHANGED <<libraryCall, gameState, useAlphaBetaPruning, thinkingData,
                   isProcessingAIMove, calculation, searchInput, prunedResult,
                   unprunedResult>>

\* new AIPlayer(gridSize, useAlphaBetaPruning).findBestMove(board, aiPlayer,
\* humanPlayer): the result of the search it dispatches to, or the error
\* thrown before any search, the board not touched
FindBestMove ==
    /\ libraryCall.fn = "findBestMove"
    /\ libraryResult = Null
    /\ \E r \in findBestMove(libraryCall.gridSize,
                      libraryCall.useAlphaBetaPruning, libraryCall.board,
                      libraryCall.aiPlayer, libraryCall.humanPlayer) :
          libraryResult' =
              IF "error" \in DOMAIN r THEN Left(r, libraryCall.board)
              ELSE Left([move |-> r.move, thinking |-> r.thinking], r.board)
    /\ UNCHANGED <<libraryCall, gameState, useAlphaBetaPruning, thinkingData,
                   isProcessingAIMove, calculation, searchInput, prunedResult,
                   unprunedResult>>

NextLibrary ==
    \/ GetWinCombos
    \/ CheckWin
    \/ CheckDraw
    \/ MakeMove
    \/ Evaluate
    \/ FindBestMove
    \/ FindBestMoveWithThinking
    \/ FindBestMoveWithDepthLimit

SpecLibrary == InitLibrary /\ [][NextLibrary]_vars

\* ------------------------------------------------------------------------
\* Properties of the line generator
\* ------------------------------------------------------------------------

\* the call of fn has returned
returned(fn) == libraryCall.fn = fn /\ libraryResult # Null

\* the cells of a line, as a set
cellsOf(line) == {line[c] : c \in DOMAIN line}

\* the full rows, the full columns and the two main diagonals of an n x n
\* board, as cell sets
fullRows(n) == {{n * r + c : c \in 0..(n - 1)} : r \in 0..(n - 1)}
fullColumns(n) == {{n * r + c : r \in 0..(n - 1)} : c \in 0..(n - 1)}
mainDiagonals(n) ==
    {{n * i + i : i \in 0..(n - 1)}, {n * i + (n - 1 - i) : i \in 0..(n - 1)}}

\* getWinCombos was called on a board of at least one cell with
\* winLength = n, given or defaulted
fullLengthCall ==
    /\ returned("getWinCombos")
    /\ libraryCall.n >= 1
    /\ \/ "winLength" \notin DOMAIN libraryCall
       \/ libraryCall.winLength = libraryCall.n

\* C11: getWinCombos(n) with winLength = n returns exactly the n full rows,
\* the n full columns and the two main diagonals, 2n + 2 lines in total
\* (8 for n = 3, 10 for n = 4), each line n distinct cells of 0..n*n-1.
C11_FullLinesOnly ==
    fullLengthCall =>
        LET n == libraryCall.n
            lines == libraryResult.value
        IN  /\ Len(lines) = 2 * n + 2
            /\ (n = 3 => Len(lines) = 8)
            /\ (n = 4 => Len(lines) = 10)
            /\ {cellsOf(lines[k]) : k \in DOMAIN lines}
                  = fullRows(n) \cup fullColumns(n) \cup mainDiagonals(n)
            /\ \A k \in DOMAIN lines :
                  /\ Len(lines[k]) = n
                  /\ Cardinality(cellsOf(lines[k])) = n
                  /\ cellsOf(lines[k]) \subseteq 0..(n * n - 1)

\* getWinCombos(4), winLength defaulted, has returned its ten lines
C11_Witness ==
    /\ fullLengthCall
    /\ libraryCall = [fn |-> "getWinCombos", n |-> 4]
    /\ Len(libraryResult.value) = 10

\* C12: getWinCombos(n) lists rows and columns interleaved per index, the
\* diagonals last: for n = 3 element 0 is the first row [0,1,2], element 1
\* the first column [0,3,6] and element 6 the diagonal [0,4,8]; for n = 4
\* element 0 is [0,1,2,3] and element 1 is [0,4,8,12].  (Element k of the
\* array is lines[k + 1] of the sequence.)
C12_RowsColumnsInterleaved ==
    returned("getWinCombos") =>
        LET lines == libraryResult.value
        IN  /\ libraryCall = [fn |-> "getWinCombos", n |-> 3] =>
                /\ lines[1] = <<0, 1, 2>>
                /\ lines[2] = <<0, 3, 6>>
                /\ lines[7] = <<0, 4, 8>>
            /\ libraryCall = [fn |-> "getWinCombos", n |-> 4] =>
                /\ lines[1] = <<0, 1, 2, 3>>
                /\ lines[2] = <<0, 4, 8, 12>>

\* the four directions of a run: along a row, along a column, down either
\* diagonal, as <<row step, column step>>
Directions == {<<0, 1>>, <<1, 0>>, <<1, 1>>, <<1, -1>>}

\* line is a run of exactly winLength consecutive cells of the n x n board
\* along a row, a column or a diagonal
isRun(line, n, winLength) ==
    /\ Len(line) = winLength
    /\ \E r \in 0..(n - 1), c \in 0..(n - 1), d \in Directions :
          \A o \in 1..winLength :
              /\ r + d[1] * (o - 1) \in 0..(n - 1)
              /\ c + d[2] * (o - 1) \in 0..(n - 1)
              /\ line[o] = n * (r + d[1] * (o - 1)) + (c + d[2] * (o - 1))

\* no two entries with the same cell set
noDuplicateLine(lines) ==
    \A j, k \in DOMAIN lines : j # k => cellsOf(lines[j]) # cellsOf(lines[k])

\* getWinCombos(n, winLength) was called with n in 1..4 and
\* 1 <= winLength <= n
slidingCall ==
    /\ returned("getWinCombos")
    /\ "winLength" \in DOMAIN libraryCall
    /\ libraryCall.n \in 1..4
    /\ libraryCall.winLength \in 1..libraryCall.n

\* C13 as stated: for n in 1..4 and 1 <= winLength <= n, getWinCombos(n,
\* winLength) contains no duplicate line and every entry is a run of exactly
\* winLength consecutive cells along a row, a column or a diagonal.
C13_NoDuplicateRuns ==
    slidingCall =>
        LET lines == libraryResult.value
        IN  /\ noDuplicateLine(lines)
            /\ \A k \in DOMAIN lines :
                  isRun(lines[k], libraryCall.n, libraryCall.winLength)

\* C13 amended: for n in 1..4 and 1 <= winLength <= n every entry is a run of
\* exactly winLength consecutive cells along a row, a column or a diagonal;
\* no line is listed twice when winLength >= 2; when winLength = 1 every cell
\* is listed four times, once per direction.
C13_NoDuplicateRunsFromTwo ==
    slidingCall =>
        LET lines == libraryResult.value
            n == libraryCall.n
        IN  /\ \A k \in DOMAIN lines : isRun(lines[k], n, libraryCall.winLength)
            /\ libraryCall.winLength >= 2 => noDuplicateLine(lines)
            /\ libraryCall.winLength = 1 =>
                  \A cell \in 0..(n * n - 1) :
                      Cardinality({k \in DOMAIN lines : lines[k] = <<cell>>}) = 4

\* getWinCombos(4, 2) has returned its 12 + 12 + 9 + 9 runs of two cells
C13_Witness ==
    /\ slidingCall
    /\ libraryCall.n = 4
    /\ libraryCall.winLength = 2
    /\ Len(libraryResult.value) = 42

\* the messages of the errors the code throws (board.ts, minimax.ts)
ErrorMessages == {"Cell is already occupied", "Grid size not yet supported"}

\* the call ended with a thrown Error, not with a returned value
threw == \E message \in ErrorMessages : libraryResult.value = Thrown(message)

\* getWinCombos was called with winLength > gridSize, winLength <= 0 or
\* gridSize <= 0
invalidCall ==
    /\ returned("getWinCombos")
    /\ LET n == libraryCall.n
           winLength == IF "winLength" \in DOMAIN libraryCall
                        THEN libraryCall.winLength ELSE n
       IN  winLength > n \/ winLength <= 0 \/ n <= 0

\* C14: getWinCombos rejects a call with winLength > gridSize, winLength <= 0
\* or gridSize <= 0 with an error; it never returns an empty list or a list
\* containing empty lines for such input.
C14_InvalidCallRejected ==
    invalidCall =>
        /\ threw
        /\ libraryResult.value # <<>>
        /\ \A k \in DOMAIN libraryResult.value : libraryResult.value[k] # <<>>

\* ------------------------------------------------------------------------
\* Properties of win detection and of makeMove
\* ------------------------------------------------------------------------

\* every cell of line is occupied by player
occupiedBy(board, line, player) ==
    \A c \in DOMAIN line : board[line[c]] = player

\* the indices of the lines of getWinCombos(gridSize, gridSize) that the
\* player of the checkWin call occupies
linesHeld ==
    LET lines == getWinCombos(libraryCall.gridSize, libraryCall.gridSize)
    IN  {k \in DOMAIN lines :
            occupiedBy(libraryCall.board, lines[k], libraryCall.player)}

\* C15: checkWin(board, player, gridSize) returns a result iff some line of
\* getWinCombos(gridSize, gridSize) has every cell occupied by player; the
\* result then has winner = player, isDraw = false and winningCells equal to
\* the first such line in line-generation order; otherwise it returns null.
\* The board is not modified.
C15_FirstHeldLineWins ==
    returned("checkWin") =>
        LET lines == getWinCombos(libraryCall.gridSize, libraryCall.gridSize)
            result == libraryResult.value
        IN  /\ (result # Null) <=> (linesHeld # {})
            /\ result # Null =>
                  /\ result.winner = libraryCall.player
                  /\ result.isDraw = FALSE
                  /\ \E k \in linesHeld :
                        /\ \A j \in linesHeld : k <= j
                        /\ result.winningCells = lines[k]
            /\ libraryResult.board = libraryCall.board

\* checkWin has returned a result on a board where the player holds two or
\* more lines
C15_Witness ==
    /\ returned("checkWin")
    /\ libraryResult.value # Null
    /\ Cardinality(linesHeld) >= 2

\* some player holds a complete line of the board of the call
someLineHeld ==
    LET n == gridSizeOf(libraryCall.board)
    IN  \E line \in fullRows(n) \cup fullColumns(n) \cup mainDiagonals(n) :
            \E player \in Player :
                \A cell \in line : libraryCall.board[cell] = player

C17_MoveOrThrow ==
    returned("makeMove") =>
        LET board == libraryCall.board
            index == libraryCall.index
        IN  /\ IF board[index] \in {"X", "O"}
               THEN threw
               ELSE /\ ~threw
                    /\ DOMAIN libraryResult.value = DOMAIN board
                    /\ \A i \in DOMAIN board :
                          libraryResult.value[i]
                            = IF i = index THEN libraryCall.player ELSE board[i]
            /\ libraryResult.board = board

\* makeMove has returned a new board, one mark more than the two or more of
\* the board it was given
C17_Witness ==
    /\ returned("makeMove")
    /\ ~threw
    /\ Cardinality(marks(libraryCall.board)) >= 2
    /\ libraryResult.value[libraryCall.index] = libraryCall.player
    /\ libraryResult.value # libraryCall.board

\* makeMove has thrown on an occupied cell
C17_Thrown ==
    /\ returned("makeMove")
    /\ threw
    /\ libraryCall.board[libraryCall.index] \in {"X", "O"}

\* ------------------------------------------------------------------------
\* Properties of the heuristic
\* ------------------------------------------------------------------------

\* the number of cells of line that hold mark
held(board, line, mark) ==
    Cardinality({c \in DOMAIN line : board[line[c]] = mark})

\* the indices of the lines that hold exactly k marks of player and no mark
\* of opponent
openLines(board, lines, k, player, opponent) ==
    {j \in DOMAIN lines :
        held(board, lines[j], player) = k /\ held(board, lines[j], opponent) = 0}

\* the sum, over k from 1 to most, of 10^(k-1) for every line with k AI marks
\* and no human mark and of -10^(k-1) for every line with k human marks and
\* no AI mark
RECURSIVE lineSum(_, _, _, _, _)
lineSum(board, lines, most, aiPlayer, humanPlayer) ==
    IF most = 0 THEN 0
    ELSE lineSum(board, lines, most - 1, aiPlayer, humanPlayer)
         + 10 ^ (most - 1)
           * (Cardinality(openLines(board, lines, most, aiPlayer, humanPlayer))
              - Cardinality(openLines(board, lines, most, humanPlayer, aiPlayer)))

\* C18: evaluate(board, ai, human, gridSize) equals the sum over all lines of
\* getWinCombos(gridSize) of: 0 if the line holds marks of both players or no
\* mark, +10^(k-1) if it holds k >= 1 AI marks and no human mark, -10^(k-1)
\* if it holds k >= 1 human marks and no AI mark; the score is a function of
\* the arguments alone, and the board is not modified.
C18_SumOverLines ==
    returned("evaluate") =>
        /\ libraryResult.value
              = lineSum(libraryCall.board,
                        getWinCombos(libraryCall.gridSize, libraryCall.gridSize),
                        libraryCall.gridSize, libraryCall.aiPlayer,
                        libraryCall.humanPlayer)
        /\ libraryResult.board = libraryCall.board

\* evaluate has returned a score other than 0 on a 4x4 board with a line of
\* both players' marks, a line of two or more AI marks alone and a line of
\* human marks alone
C18_Witness ==
    /\ returned("evaluate")
    /\ libraryCall.gridSize = 4
    /\ libraryResult.value # 0
    /\ LET board == libraryCall.board
           lines == getWinCombos(4, 4)
           ai == libraryCall.aiPlayer
           human == libraryCall.humanPlayer
       IN  /\ \E j \in DOMAIN lines :
                 held(board, lines[j], ai) > 0 /\ held(board, lines[j], human) > 0
           /\ \E k \in 2..4 : openLines(board, lines, k, ai, human) # {}
           /\ \E k \in 1..4 : openLines(board, lines, k, human, ai) # {}

\* player holds a complete line (a full row, a full column or a main
\* diagonal) of board
holdsLine(board, player) ==
    LET n == gridSizeOf(board)
    IN  \E line \in fullRows(n) \cup fullColumns(n) \cup mainDiagonals(n) :
            \A cell \in line : board[cell] = player

\* C19: for every board (3x3 or 4x4) on which neither player holds a complete
\* line, the value returned by evaluate lies strictly between -50 and 50, so
\* that a leaf scored by the heuristic is never classified as a proven win
\* (score > 50) or loss (score < -50).
C19_HeuristicInsideFifty ==
    (/\ returned("evaluate")
     /\ ~holdsLine(libraryCall.board, "X")
     /\ ~holdsLine(libraryCall.board, "O"))
        => /\ libraryResult.value > -50
           /\ libraryResult.value < 50

\* the same bound on the 3x3 boards alone
HeuristicInsideFifty3 ==
    (/\ returned("evaluate")
     /\ libraryCall.gridSize = 3
     /\ ~holdsLine(libraryCall.board, "X")
     /\ ~holdsLine(libraryCall.board, "O"))
        => /\ libraryResult.value > -50
           /\ libraryResult.value < 50

\* ------------------------------------------------------------------------
\* Properties of the depth-limited search on threat positions
\* ------------------------------------------------------------------------

\* the empty cells with which the AI of the call completes a line
winsInOne ==
    {i \in DOMAIN libraryCall.board :
        /\ libraryCall.board[i] \notin {"X", "O"}
        /\ holdsLine([libraryCall.board EXCEPT ![i] = libraryCall.aiPlayer],
                     libraryCall.aiPlayer)}

\* findBestMoveWithDepthLimit has returned on a 4x4 board without a complete
\* line and with an empty cell, on which the AI can complete a line with one
\* mark
winnableCall ==
    /\ returned("findBestMoveWithDepthLimit")
    /\ libraryCall.gridSize = 4
    /\ libraryCall.maxDepth = 3
    /\ ~holdsLine(libraryCall.board, "X")
    /\ ~holdsLine(libraryCall.board, "O")
    /\ winsInOne # {}

\* C20: for every non-terminal 4x4 board on which the AI can complete a
\* four-cell line with one mark, findBestMoveWithDepthLimit with maxDepth = 3
\* and the evaluate heuristic returns a cell that completes an AI line; no
\* candidate that does not win, scored through heuristic leaves, outranks the
\* immediate win.
C20_ImmediateWinTaken ==
    winnableCall =>
        LET evaluations == libraryResult.value.thinking.evaluations
        IN  /\ libraryResult.value.move \in winsInOne
            /\ \A j, k \in DOMAIN evaluations :
                  (evaluations[j].position \notin winsInOne
                   /\ evaluations[k].position \in winsInOne)
                      => evaluations[j].score <= evaluations[k].score

\* the move returned on such a board is a winning one whenever the first
\* candidate to reach the best score is
ImmediateWinTakenWhenFirst ==
    winnableCall =>
        LET evaluations == libraryResult.value.thinking.evaluations
            best == libraryResult.value.thinking.chosenScore
        IN  /\ best >= WIN_SCORE
            /\ \E k \in DOMAIN evaluations :
                  /\ evaluations[k].position = libraryResult.value.move
                  /\ evaluations[k].score = best
                  /\ \A j \in 1..(k - 1) : evaluations[j].score < best

\* ------------------------------------------------------------------------
\* Properties of the search entry points called on their own
\* ------------------------------------------------------------------------

\* a search entry point has returned
searchReturned ==
    /\ libraryCall.fn \in {"findBestMoveWithThinking", "findBestMoveWithDepthLimit"}
    /\ libraryResult # Null

\* the search was requested on a board that is already terminal: a player
\* holds a complete line, or no cell is empty
terminalCall ==
    /\ searchReturned
    /\ \/ holdsLine(libraryCall.board, "X")
       \/ holdsLine(libraryCall.board, "O")
       \/ \A i \in DOMAIN libraryCall.board : libraryCall.board[i] \in {"X", "O"}

\* C21: a search requested on an already-terminal board fails with an error:
\* findBestMoveWithThinking and findBestMoveWithDepthLimit never return a
\* move for such a board (in particular never -1 with score -Infinity, and
\* never a cell of a board that is already won).
C21_TerminalBoardRejected ==
    terminalCall =>
        /\ threw
        /\ "move" \notin DOMAIN libraryResult.value

\* AIPlayer.findBestMove has returned or thrown
dispatched == libraryCall.fn = "findBestMove" /\ libraryResult # Null

\* C22: AIPlayer.findBestMove dispatches by grid size: gridSize 3 runs the
\* exact search, gridSize 4 runs the depth-limited search with maxDepth 3 and
\* the evaluate heuristic, and every other grid size raises an error without
\* searching and without touching the board.
C22_DispatchBySize ==
    dispatched =>
        LET c == libraryCall
            exact == findBestMoveWithThinking(c.board, c.aiPlayer,
                         c.humanPlayer, 3, c.useAlphaBetaPruning)
            limited == findBestMoveWithDepthLimit(c.board, c.aiPlayer,
                           c.humanPlayer, 4, 3, c.useAlphaBetaPruning)
        IN  /\ c.gridSize = 3 =>
                  \E r \in exact :
                      /\ libraryResult.value.move = r.move
                      /\ libraryResult.value.thinking = r.thinking
            /\ c.gridSize = 4 =>
                  \E r \in limited :
                      /\ libraryResult.value.move = r.move
                      /\ libraryResult.value.thinking = r.thinking
                      /\ libraryResult.value.thinking.maxDepth <= 3
            /\ c.gridSize \notin {3, 4} =>
                  /\ threw
                  /\ "thinking" \notin DOMAIN libraryResult.value
                  /\ libraryResult.board = c.board

\* findBestMove has run the depth-limited search to its limit on a 4x4
\* board, and leaves of the search were scored by the heuristic
C22_Witness ==
    /\ dispatched
    /\ libraryCall.gridSize = 4
    /\ libraryResult.value.thinking.maxDepth = 3
    /\ \E k \in DOMAIN libraryResult.value.thinking.evaluations :
          libraryResult.value.thinking.evaluations[k].outcome = "unknown"

\* findBestMove has thrown for a grid size it does not support
C22_Unsupported ==
    /\ dispatched
    /\ libraryCall.gridSize = 5
    /\ threw

\* ------------------------------------------------------------------------
\* The opening shortcut: getRandomCornerMove called on its own, and the game
\* on the page that uses it
\* ------------------------------------------------------------------------

\* new AIPlayer(gridSize).getRandomCornerMove(board) is about to be called on
\* a board with an empty cell
InitCorner ==
    /\ \E board \in {b \in LibraryBoards : hasEmptyCells(b)} :
          libraryCall = [fn |-> "getRandomCornerMove",
                         gridSize |-> gridSizeOf(board), board |-> board]
    /\ libraryResult = Null
    /\ searchInput = Null
    /\ prunedResult = Null
    /\ unprunedResult = Null
    /\ useAlphaBetaPruning = TRUE
    /\ thinkingData = Null
    /\ gameState = createGameState(GRID_SIZE)
    /\ isProcessingAIMove = FALSE
    /\ calculation = Null

\* getRandomCornerMove reads the board (filter, map) and writes nothing
GetRandomCornerMove ==
    /\ libraryCall # Null
    /\ libraryCall.fn = "getRandomCornerMove"
    /\ libraryResult = Null
    /\ \E cornerMove \in getRandomCornerMove(libraryCall.gridSize,
                                             libraryCall.board) :
          libraryResult' = Left(cornerMove, libraryCall.board)
    /\ UNCHANGED <<libraryCall, gameState, useAlphaBetaPruning, thinkingData,
                   isProcessingAIMove, calculation, searchInput, prunedResult,
                   unprunedResult>>

InitOpening == InitGame \/ InitCorner

\* the page runs when no library call is under way
NextOpening ==
    \/ libraryCall = Null /\ NextGame
    \/ GetRandomCornerMove

SpecOpening == InitOpening /\ [][NextOpening]_vars

\* the four corner cells of an n x n board
cornerCells(n) == {0, n - 1, n * (n - 1), n * n - 1}

\* getRandomCornerMove has returned
cornerReturned ==
    /\ libraryCall # Null
    /\ libraryCall.fn = "getRandomCornerMove"
    /\ libraryResult # Null

\* the AI, playing X, has made the first move of the game and nobody has
\* moved since
openingPlayed ==
    /\ gameState.aiPlayer = "X"
    /\ Cardinality(marks(gameState.board)) = 1

\* C23: getRandomCornerMove returns an empty corner cell whenever at least
\* one of the four corners is empty, and otherwise an empty cell of the
\* board; and when the AI is X on an empty board the page plays that corner
\* without running any search, so that thinkingData stays null after the
\* AI's opening move.
C23_OpeningCorner ==
    /\ cornerReturned =>
          LET board == libraryCall.board
              emptyCells == {i \in DOMAIN board : board[i] \notin {"X", "O"}}
              emptyCorners == cornerCells(libraryCall.gridSize) \cap emptyCells
          IN  /\ emptyCorners # {} => libraryResult.value \in emptyCorners
              /\ emptyCorners = {} => libraryResult.value \in emptyCells
              /\ libraryResult.board = board
    /\ openingPlayed =>
          /\ \E corner \in cornerCells(GRID_SIZE) :
                marks(gameState.board) = {corner} /\ gameState.board[corner] = "X"
          /\ thinkingData = Null
          /\ calculation = Null

\* the AI has opened in the corner 8 and it is the human's turn
C23_Witness ==
    /\ openingPlayed
    /\ gameState.board[8] = "X"
    /\ isHumanTurn(gameState)
    /\ thinkingData = Null

\* getRandomCornerMove has returned a cell that is not a corner, on a 4x4
\* board whose corners are all taken
C23_Fallback ==
    /\ cornerReturned
    /\ libraryCall.gridSize = 4
    /\ libraryResult.value \notin cornerCells(4)

\* ------------------------------------------------------------------------
\* Properties of the root loop (SpecSearch)
\* ------------------------------------------------------------------------

\* the positions of the root candidates whose score is the best score
tiedCandidates(thinking) ==
    {thinking.evaluations[k].position :
        k \in {j \in DOMAIN thinking.evaluations :
                  thinking.evaluations[j].score = thinking.chosenScore}}

\* the move is the lowest cell among the tied candidates: the choice of the
\* depth-limited search
firstOfTied(r) ==
    /\ r.move \in tiedCandidates(r.thinking)
    /\ \A cell \in tiedCandidates(r.thinking) : r.move <= cell

\* C24: when several root candidates share the best score the engine
\* resolves the tie by one single policy: findBestMoveWithThinking (3x3) and
\* findBestMoveWithDepthLimit (4x4) choose among the tied candidates in the
\* same way, the way of the depth-limited search.
C24_OneTiePolicy ==
    searched =>
        \A r \in {prunedResult, unprunedResult} : firstOfTied(r)

\* the depth-limited search does follow that policy on every 4x4 position
DepthLimitTakesFirstOfTied ==
    (searched /\ searchInput.gridSize = 4) =>
        \A r \in {prunedResult, unprunedResult} : firstOfTied(r)

\* ------------------------------------------------------------------------
\* A search entry point called twice with the same arguments
\* ------------------------------------------------------------------------

\* the calls that are repeated: AIPlayer.findBestMove, which dispatches to
\* findBestMoveWithThinking and to findBestMoveWithDepthLimit, on the
\* positions it is called on
RepeatedCalls ==
    {[fn |-> "findBestMove", gridSize |-> p.gridSize,
      useAlphaBetaPruning |-> useAlphaBeta, board |-> p.board,
      aiPlayer |-> p.aiPlayer, humanPlayer |-> p.humanPlayer] :
        p \in DispatchPositions, useAlphaBeta \in BOOLEAN}

InitRepeat ==
    /\ libraryCall \in RepeatedCalls
    /\ libraryResult = Null
    /\ searchInput = Null
    /\ prunedResult = Null
    /\ unprunedResult = Null
    /\ useAlphaBetaPruning = TRUE
    /\ thinkingData = Null
    /\ gameState = createGameState(GRID_SIZE)
    /\ isProcessingAIMove = FALSE
    /\ calculation = Null

\* The caller repeats the call, with the arguments of the first one and the
\* board array the first one worked on.  Every search builds its own
\* MinimaxContext (const context: MinimaxContext = { nodesEvaluated: 0, ... })
\* and the module keeps no variable between calls.
CallAgain ==
    /\ libraryCall.fn = "findBestMove"
    /\ libraryResult # Null
    /\ "again" \notin DOMAIN libraryResult
    /\ \E r \in findBestMove(libraryCall.gridSize,
                      libraryCall.useAlphaBetaPruning, libraryResult.board,
                      libraryCall.aiPlayer, libraryCall.humanPlayer) :
          libraryResult' =
              IF "error" \in DOMAIN r
              THEN [value |-> libraryResult.value,
                    board |-> libraryResult.board, again |-> r]
              ELSE [value |-> libraryResult.value, board |-> r.board,
                    again |-> [move |-> r.move, thinking |-> r.thinking]]
    /\ UNCHANGED <<libraryCall, gameState, useAlphaBetaPruning, thinkingData,
                   isProcessingAIMove, calculation, searchInput, prunedResult,
                   unprunedResult>>

NextRepeat ==
    \/ FindBestMove
    \/ CallAgain

SpecRepeat == InitRepeat /\ [][NextRepeat]_vars

\* both calls have returned a move and its ThinkingData
repeated ==
    /\ libraryResult # Null
    /\ "again" \in DOMAIN libraryResult
    /\ "thinking" \in DOMAIN libraryResult.value
    /\ "thinking" \in DOMAIN libraryResult.again

\* the fields of a MoveEvaluation that two calls must agree on
sameEvaluation(e, f) ==
    /\ e.position = f.position
    /\ e.score = f.score
    /\ e.outcome = f.outcome
    /\ e.nodesVisited = f.nodesVisited
    /\ e.branchesPruned = f.branchesPruned
    /\ e.pruned = f.pruned
    /\ e.pruningDepth = f.pruningDepth
    /\ e.maxDepthReached = f.maxDepthReached

C26_BoardRestored ==
    searched =>
        \A r \in {prunedResult, unprunedResult} :
            \A i \in DOMAIN searchInput.board :
                r.board[i] = searchInput.board[i]

\* a search that broke out of loops early has returned
C26_Witness ==
    /\ searched
    /\ prunedResult.thinking.branchesPruned > 0
    /\ \E k \in DOMAIN prunedResult.thinking.evaluations :
          prunedResult.thinking.evaluations[k].pruned
    /\ prunedResult.board = searchInput.board

\* ------------------------------------------------------------------------
\* The list of evaluations
\* ------------------------------------------------------------------------

\* the evaluations are one per empty cell of board, by ascending cell index
onePerEmptyCell(evaluations, board) ==
    /\ Len(evaluations) = Cardinality({i \in DOMAIN board : isEmptyCell(board[i])})
    /\ \A k \in DOMAIN evaluations :
          /\ evaluations[k].position \in DOMAIN board
          /\ isEmptyCell(board[evaluations[k].position])
    /\ \A j, k \in DOMAIN evaluations :
          j < k => evaluations[j].position < evaluations[k].position

\* C27: the evaluations of a search are exactly one MoveEvaluation per empty
\* cell of the board it was given, in ascending order of the cell index; on a
\* board with an empty cell the chosen move is the position of an evaluation
\* whose score is chosenScore, and chosenScore is the greatest score of the
\* list.
C27_EvaluationPerEmptyCell ==
    searched =>
        \A r \in {prunedResult, unprunedResult} :
            /\ onePerEmptyCell(r.thinking.evaluations, searchInput.board)
            /\ r.thinking.chosenMove = r.move
            /\ \E k \in DOMAIN r.thinking.evaluations :
                  /\ r.thinking.evaluations[k].position = r.move
                  /\ r.thinking.evaluations[k].score = r.thinking.chosenScore
            /\ \A k \in DOMAIN r.thinking.evaluations :
                  r.thinking.evaluations[k].score <= r.thinking.chosenScore

\* a search of a board with marks between its empty cells has returned a move
\* that is neither the first candidate nor the last, the candidates scored
\* differently
C27_Witness ==
    /\ searched
    /\ LET evaluations == prunedResult.thinking.evaluations
       IN  /\ Len(evaluations) >= 3
           /\ evaluations[1].position # 0
           /\ \E k \in 2..(Len(evaluations) - 1) :
                 /\ evaluations[k].position = prunedResult.move
                 /\ evaluations[k].position > evaluations[k - 1].position + 1
                 /\ evaluations[k].score > evaluations[1].score
                 /\ evaluations[k].score > evaluations[Len(evaluations)].score

\* ------------------------------------------------------------------------
\* The value the exact search computes
\* ------------------------------------------------------------------------

\* the greatest and the least of a non-empty set of integers
greatest(values) == CHOOSE v \in values : \A w \in values : w <= v
least(values) == CHOOSE v \in values : \A w \in values : v <= w

\* the complete lines of the 3x3 board, and whether player holds one
CompleteLines3 == fullRows(3) \cup fullColumns(3) \cup mainDiagonals(3)
completes(board, player) ==
    \E line \in CompleteLines3 : \A cell \in line : board[cell] = player

\* The depth-adjusted minimax value of a 3x3 board with player to move, depth
\* plies below a root candidate: 100 - depth for a line of the AI,
\* -100 + depth for a line of the human, 0 for a full board, otherwise the
\* greatest (AI to move) or least (human to move) value of the boards one
\* mark later.
RECURSIVE minimaxValue(_, _, _, _)
minimaxValue(board, player, aiPlayer, depth) ==
    LET humanPlayer == nextPlayer(aiPlayer)
        values == {minimaxValue([board EXCEPT ![i] = player],
                                nextPlayer(player), aiPlayer, depth + 1) :
                      i \in {c \in DOMAIN board : isEmptyCell(board[c])}}
    IN  IF completes(board, aiPlayer) THEN 100 - depth
        ELSE IF completes(board, humanPlayer) THEN -100 + depth
        ELSE IF \A c \in DOMAIN board : ~isEmptyCell(board[c]) THEN 0
        ELSE IF player = aiPlayer THEN greatest(values)
        ELSE least(values)

\* the value of the root candidate cell: the AI's mark placed, the human to
\* move, at depth 0
candidateValue(input, cell) ==
    minimaxValue([input.board EXCEPT ![cell] = input.aiPlayer],
                 input.humanPlayer, input.aiPlayer, 0)

\* C28: the exact search scores every root candidate with its depth-adjusted
\* minimax value, and chosenScore is the greatest of them, the value of the
\* chosen move: a faster win is preferred to a slower one, a slower loss to a
\* faster one.
C28_DepthAdjustedValue ==
    thinkingSearched =>
        LET value == [cell \in getEmptyCells(searchInput.board) |->
                         candidateValue(searchInput, cell)]
        IN  \A r \in {prunedResult, unprunedResult} :
                /\ \A k \in DOMAIN r.thinking.evaluations :
                      r.thinking.evaluations[k].score =
                          value[r.thinking.evaluations[k].position]
                /\ r.thinking.chosenScore =
                      greatest({value[cell] : cell \in DOMAIN value})
                /\ value[r.move] = r.thinking.chosenScore

\* every move loses, and the chosen one loses later than another
C28_Witness ==
    /\ thinkingSearched
    /\ prunedResult.thinking.chosenScore < 0
    /\ \E k \in DOMAIN prunedResult.thinking.evaluations :
          prunedResult.thinking.evaluations[k].score < prunedResult.thinking.chosenScore

\* a win is forced, and the chosen move wins sooner than another winning move
C28_FasterWin ==
    /\ thinkingSearched
    /\ prunedResult.thinking.chosenScore > 0
    /\ \E k \in DOMAIN prunedResult.thinking.evaluations :
          /\ prunedResult.thinking.evaluations[k].score > 0
          /\ prunedResult.thinking.evaluations[k].score < prunedResult.thinking.chosenScore

\* ------------------------------------------------------------------------
\* minimaxWithDepthLimit called on a node, findBestMoveWithDepthLimit on a
\* position
\* ------------------------------------------------------------------------

\* maxDepth is at most MaxDepthLimit, and a node is at most MaxPlies above it
MaxDepthLimit == 3
MaxPlies == 2

\* the boards of the nodes: those of the 4x4 threat positions, the boards one
\* mark of the side to move later, and the boards of finished games
NodeBoards4 ==
    {p.board : p \in Threats4}
        \cup UNION {{makeMove(p.board, i, p.aiPlayer) :
                        i \in getEmptyCells(p.board)} : p \in Threats4}
        \cup TerminalBoards4

\* minimaxWithDepthLimit(board, player, aiPlayer, humanPlayer, depth, maxDepth,
\* -Infinity, Infinity, context, 4, evaluate, useAlphaBetaPruning) with a
\* context that has counted nothing
NodeCalls ==
    {call \in
        {[fn |-> "minimaxWithDepthLimit", board |-> board, player |-> player,
          aiPlayer |-> aiPlayer, humanPlayer |-> nextPlayer(aiPlayer),
          depth |-> maxDepth - plies, maxDepth |-> maxDepth,
          useAlphaBetaPruning |-> useAlphaBeta] :
            board \in NodeBoards4, player \in Player, aiPlayer \in Player,
            maxDepth \in 1..MaxDepthLimit, plies \in 0..MaxPlies,
            useAlphaBeta \in BOOLEAN} :
        call.depth >= 0}

DepthLimitCalls ==
    {[fn |-> "findBestMoveWithDepthLimit", board |-> p.board,
      aiPlayer |-> p.aiPlayer, humanPlayer |-> p.humanPlayer,
      gridSize |-> p.gridSize, maxDepth |-> maxDepth,
      useAlphaBetaPruning |-> useAlphaBeta] :
        p \in Threats4, maxDepth \in 1..MaxDepthLimit, useAlphaBeta \in BOOLEAN}

InitNode ==
    /\ libraryCall \in NodeCalls \cup DepthLimitCalls
    /\ libraryResult = Null
    /\ searchInput = Null
    /\ prunedResult = Null
    /\ unprunedResult = Null
    /\ useAlphaBetaPruning = TRUE
    /\ thinkingData = Null
    /\ gameState = createGameState(GRID_SIZE)
    /\ isProcessingAIMove = FALSE
    /\ calculation = Null

\* the call returns its value and leaves the context and the board it worked
\* on
MinimaxWithDepthLimit ==
    /\ libraryCall.fn = "minimaxWithDepthLimit"
    /\ libraryResult = Null
    /\ LET r == search[[fn |-> "minimaxWithDepthLimit", at |-> "entry",
                        board |-> libraryCall.board,
                        player |-> libraryCall.player,
                        aiPlayer |-> libraryCall.aiPlayer,
                        humanPlayer |-> libraryCall.humanPlayer,
                        depth |-> libraryCall.depth,
                        maxDepth |-> libraryCall.maxDepth,
                        alpha |-> -Infinity, beta |-> Infinity,
                        context |-> newContext, gridSize |-> 4,
                        useAlphaBetaPruning |-> libraryCall.useAlphaBetaPruning,
                        todo |-> <<>>, best |-> 0]]
       IN  libraryResult' = [value |-> r.val, board |-> r.board,
                             context |-> r.context]
    /\ UNCHANGED <<libraryCall, gameState, useAlphaBetaPruning, thinkingData,
                   isProcessingAIMove, calculation, searchInput, prunedResult,
                   unprunedResult>>

NextNode ==
    \/ MinimaxWithDepthLimit
    \/ FindBestMoveWithDepthLimit

SpecNode == InitNode /\ [][NextNode]_vars

\* the complete lines of the 4x4 board, and whether player holds one
CompleteLines4 == fullRows(4) \cup fullColumns(4) \cup mainDiagonals(4)
completes4(board, player) ==
    \E line \in CompleteLines4 : \A cell \in line : board[cell] = player

\* the game on board is over
terminal4(board) ==
    \/ completes4(board, "X")
    \/ completes4(board, "O")
    \/ \A c \in DOMAIN board : ~isEmptyCell(board[c])

\* the score of a finished game at depth
terminalScore(board, aiPlayer, depth) ==
    IF completes4(board, aiPlayer) THEN 100 - depth
    ELSE IF completes4(board, nextPlayer(aiPlayer)) THEN -100 + depth
    ELSE 0

\* the sum over the lines that is the heuristic score of board
heuristic4(board, aiPlayer) ==
    lineSum(board, WinCombos4, 4, aiPlayer, nextPlayer(aiPlayer))

\* The value of a node under the cutoff rule: its terminal score when the
\* game is over, at any depth; the heuristic score when it is not over and
\* depth is maxDepth; otherwise the greatest (AI to move) or least (human to
\* move) value of the nodes one mark later, one level deeper.
RECURSIVE limitedValue(_, _, _, _, _)
limitedValue(board, player, aiPlayer, depth, maxDepth) ==
    LET values == {limitedValue([board EXCEPT ![i] = player],
                                nextPlayer(player), aiPlayer, depth + 1,
                                maxDepth) :
                      i \in {c \in DOMAIN board : isEmptyCell(board[c])}}
    IN  IF terminal4(board) THEN terminalScore(board, aiPlayer, depth)
        ELSE IF depth = maxDepth THEN heuristic4(board, aiPlayer)
        ELSE IF player = aiPlayer THEN greatest(values)
        ELSE least(values)

\* C29: the depth-limited search visits no node deeper than maxDepth
\* (thinking.maxDepth <= maxDepth), runs the terminal checks before the
\* cutoff, so that a won, lost or full position at depth maxDepth gets its
\* terminal score, and invokes the heuristic only on nodes at depth maxDepth
\* where the game is not over.
C29_CutoffRule ==
    /\ returned("findBestMoveWithDepthLimit") =>
          /\ libraryResult.value.thinking.maxDepth <= libraryCall.maxDepth
          /\ \A k \in DOMAIN libraryResult.value.thinking.evaluations :
                libraryResult.value.thinking.evaluations[k].maxDepthReached
                    <= libraryCall.maxDepth
    /\ returned("minimaxWithDepthLimit") =>
          LET board == libraryCall.board
              depth == libraryCall.depth
              found == libraryResult.context.terminalStates
          IN  /\ libraryResult.context.maxDepth <= libraryCall.maxDepth
              /\ libraryResult.value =
                    limitedValue(board, libraryCall.player,
                                 libraryCall.aiPlayer, depth, libraryCall.maxDepth)
              /\ terminal4(board) =>
                    /\ libraryResult.value
                          = terminalScore(board, libraryCall.aiPlayer, depth)
                    /\ found.wins + found.losses + found.draws = 1
                    /\ libraryResult.context.nodesEvaluated = 1
              /\ (~terminal4(board) /\ depth = libraryCall.maxDepth) =>
                    /\ libraryResult.value = heuristic4(board, libraryCall.aiPlayer)
                    /\ found.wins + found.losses + found.draws = 0
                    /\ libraryResult.context.nodesEvaluated = 1

\* a node above maxDepth has been searched down to maxDepth, where finished
\* games and unfinished ones were met
C29_Witness ==
    /\ returned("minimaxWithDepthLimit")
    /\ libraryCall.depth < libraryCall.maxDepth
    /\ libraryResult.context.maxDepth = libraryCall.maxDepth
    /\ libraryResult.context.terminalStates.wins > 0
    /\ libraryResult.context.terminalStates.losses > 0
    /\ libraryResult.value \notin {100 - d : d \in 0..MaxDepthLimit}
    /\ libraryResult.value \notin {d - 100 : d \in 0..MaxDepthLimit}
    /\ libraryResult.value # 0

\* a won position at depth maxDepth has got its terminal score, not the
\* heuristic one
C29_TerminalAtLimit ==
    /\ returned("minimaxWithDepthLimit")
    /\ libraryCall.depth = libraryCall.maxDepth
    /\ completes4(libraryCall.board, libraryCall.aiPlayer)
    /\ libraryResult.value = 100 - libraryCall.depth
    /\ libraryResult.value # heuristic4(libraryCall.board, libraryCall.aiPlayer)

\* ------------------------------------------------------------------------
\* The pruned mark of a root candidate
\* ------------------------------------------------------------------------

\* C30: a root candidate is marked pruned (pruned = true, fullyEvaluated =
\* false) only when alpha-beta cut its subtree short, that is only when the
\* search visited strictly fewer nodes below it than the search without
\* pruning does; a beta <= alpha met after the last sibling of a node marks
\* nothing and counts no pruned branch.
C30_PrunedMeansCutShort ==
    searched =>
        \A k \in DOMAIN prunedResult.thinking.evaluations :
            LET with == prunedResult.thinking.evaluations[k]
                without == unprunedResult.thinking.evaluations[k]
            IN  /\ with.pruned = ~with.fullyEvaluated
                /\ with.pruned => with.nodesVisited < without.nodesVisited
                /\ with.branchesPruned > 0 => with.nodesVisited < without.nodesVisited

\* ------------------------------------------------------------------------
\* The outcome of a root candidate of the exact search
\* ------------------------------------------------------------------------

\* C31: the exact 3x3 search of a board of a game in progress classifies
\* every root candidate as win, loss or draw, never as unknown: its score is
\* 0 (draw), or in 92..100 (win), or in -100..-92 (loss).
C31_OutcomeNeverUnknown ==
    thinkingSearched =>
        \A r \in {prunedResult, unprunedResult} :
            \A k \in DOMAIN r.thinking.evaluations :
                LET e == r.thinking.evaluations[k]
                IN  /\ e.outcome # "unknown"
                    /\ \/ e.score = 0 /\ e.outcome = "draw"
                       \/ e.score \in 92..100 /\ e.outcome = "win"
                       \/ e.score \in (-100)..(-92) /\ e.outcome = "loss"

\* one search has found a winning, a losing and a drawing candidate
C31_Witness ==
    /\ thinkingSearched
    /\ \E i, j, k \in DOMAIN prunedResult.thinking.evaluations :
          /\ prunedResult.thinking.evaluations[i].outcome = "win"
          /\ prunedResult.thinking.evaluations[i].score < 100
          /\ prunedResult.thinking.evaluations[j].outcome = "loss"
          /\ prunedResult.thinking.evaluations[k].outcome = "draw"

\* ------------------------------------------------------------------------
\* Replay steps (src/lib/ai/thinking.ts)
\* ------------------------------------------------------------------------

\* the ReplayStep pushed for evaluation, stepNumber the counter before it
replayStep(evaluation, kind, stepNumber) ==
    [moveIndex |-> evaluation.position,
     kind |-> kind,
     stepNumber |-> IF kind = "consider" \/ kind = "chosen" THEN stepNumber
                    ELSE Undefined,
     score |-> evaluation.score,
     nodesVisited |-> evaluation.nodesVisited,
     maxDepth |-> evaluation.maxDepthReached,
     outcome |-> evaluation.outcome,
     pruningDepth |-> evaluation.pruningDepth]

\* a slip in the tagging: the pruned flag tested before the chosen move
kindOfPrunedFirst(evaluation, chosenMove) ==
    IF evaluation.pruned THEN "pruned"
    ELSE IF evaluation.position = chosenMove THEN "chosen"
    ELSE "consider"

\* the kind of the step of evaluation
kindOf(evaluation, chosenMove) ==
    IF evaluation.position = chosenMove THEN "chosen"
    ELSE IF evaluation.pruned THEN "pruned"
    ELSE "consider"

\* the for-loop of generateReplaySteps from the k-th evaluation on, stepNumber
\* the counter: the steps it pushes
RECURSIVE replayFrom(_, _, _)
replayFrom(thinking, k, stepNumber) ==
    IF k > Len(thinking.evaluations) THEN <<>>
    ELSE LET evaluation == thinking.evaluations[k]
             kind == kindOf(evaluation, thinking.chosenMove)
         IN  <<replayStep(evaluation, kind, stepNumber)>>
             \o replayFrom(thinking, k + 1,
                           IF kind = "consider" \/ kind = "chosen"
                           THEN stepNumber + 1 ELSE stepNumber)

generateReplaySteps(thinking) == replayFrom(thinking, 1, 1)

\* the searched 3x3 positions have at most MaxEmptyReplay empty cells
MaxEmptyReplay == 4

InitReplay ==
    /\ InitSearch
    /\ \/ /\ searchInput.gridSize = 3
          /\ Cardinality(getEmptyCells(searchInput.board)) <= MaxEmptyReplay
       \/ /\ searchInput.gridSize = 4
          /\ Cardinality(getEmptyCells(searchInput.board)) <= MaxEmptyReplay - 1

\* generateReplaySteps is called on the ThinkingData of one of the searches,
\* or on that data with another chosenMove (a cell, or -1 for none)
GenerateReplaySteps ==
    /\ searched
    /\ libraryResult = Null
    /\ \E r \in {prunedResult, unprunedResult},
          chosenMove \in (-1)..(searchInput.gridSize * searchInput.gridSize - 1) :
          LET thinking == [r.thinking EXCEPT !.chosenMove = chosenMove]
          IN  /\ libraryCall' = [fn |-> "generateReplaySteps",
                                 thinkingData |-> thinking]
              /\ libraryResult' = [value |-> generateReplaySteps(thinking)]
    /\ UNCHANGED <<gameState, useAlphaBetaPruning, thinkingData,
                   isProcessingAIMove, calculation, searchInput, prunedResult,
                   unprunedResult>>

NextReplay ==
    \/ SearchBothWays
    \/ GenerateReplaySteps

SpecReplay == InitReplay /\ [][NextReplay]_vars

\* generateReplaySteps has returned
replayed == libraryCall # Null /\ libraryResult # Null

\* the indices of the steps of kind
stepsOf(steps, kind) == {k \in DOMAIN steps : steps[k].kind = kind}

\* C32: generateReplaySteps returns one step per evaluation, in the order of
\* the evaluations, with moveIndex, score, nodesVisited and outcome copied;
\* a step is chosen iff its position is chosenMove (a pruned flag or not),
\* otherwise pruned iff the evaluation is flagged pruned, otherwise consider;
\* the steps that are not pruned are numbered 1, 2, 3, ... in order and a
\* pruned step has no number.  The ThinkingData of a search of a board with
\* an empty cell gives exactly one chosen step.
C32_ReplaySteps ==
    replayed =>
        LET thinking == libraryCall.thinkingData
            evaluations == thinking.evaluations
            steps == libraryResult.value
        IN  /\ Len(steps) = Len(evaluations)
            /\ \A k \in DOMAIN steps :
                  /\ steps[k].moveIndex = evaluations[k].position
                  /\ steps[k].score = evaluations[k].score
                  /\ steps[k].nodesVisited = evaluations[k].nodesVisited
                  /\ steps[k].outcome = evaluations[k].outcome
                  /\ steps[k].kind \in {"chosen", "pruned", "consider"}
                  /\ steps[k].kind = "chosen"
                        <=> evaluations[k].position = thinking.chosenMove
                  /\ steps[k].kind = "pruned"
                        <=> /\ evaluations[k].position # thinking.chosenMove
                            /\ evaluations[k].pruned
                  /\ steps[k].kind = "pruned" => steps[k].stepNumber = Undefined
                  /\ steps[k].kind # "pruned" =>
                        steps[k].stepNumber =
                            Cardinality({j \in 1..k : steps[j].kind # "pruned"})
            /\ thinking \in {prunedResult.thinking, unprunedResult.thinking} =>
                  Cardinality(stepsOf(steps, "chosen")) = 1

\* the steps of a search: the chosen one is of a candidate flagged pruned,
\* and a pruned step comes before a numbered one
C32_Witness ==
    /\ replayed
    /\ libraryCall.thinkingData = prunedResult.thinking
    /\ LET steps == libraryResult.value
           evaluations == libraryCall.thinkingData.evaluations
       IN  /\ \E k \in stepsOf(steps, "chosen") : evaluations[k].pruned
           /\ \E j \in stepsOf(steps, "pruned"), k \in stepsOf(steps, "consider") :
                 j < k /\ steps[k].stepNumber = k - 1

\* ------------------------------------------------------------------------
\* makePlayerMove and makeAIMove called on a game state (src/hooks/useGame.ts)
\* ------------------------------------------------------------------------

\* resetGameState(currentState, gridSize)
resetGameState(currentState, gridSize) ==
    [createGameState(gridSize) EXCEPT
        !.humanPlayer = currentState.humanPlayer,
        !.aiPlayer = currentState.aiPlayer]

\* X moves first: the side to move on a board
toMove(board) ==
    IF Cardinality({i \in DOMAIN board : board[i] = "X"})
           = Cardinality({i \in DOMAIN board : board[i] = "O"})
    THEN "X" ELSE "O"

\* the states of a 3x3 game in progress: nobody holds a line, a cell is empty
PlayingStates3 ==
    {[board |-> board, currentPlayer |-> toMove(board),
      humanPlayer |-> humanPlayer, aiPlayer |-> nextPlayer(humanPlayer),
      status |-> "playing", winner |-> NoPlayer, winningCells |-> NoCells] :
        board \in Boards3 \ TerminalBoards3, humanPlayer \in Player}

\* the states of a 3x3 game that is won: the winner made the last move and is
\* the only one to hold a line
WonStates3 ==
    UNION {{[board |-> board, currentPlayer |-> winner,
             humanPlayer |-> humanPlayer, aiPlayer |-> nextPlayer(humanPlayer),
             status |-> "won", winner |-> winner,
             winningCells |-> checkWin(board, winner, 3).winningCells] :
               board \in {b \in TerminalBoards3 :
                             /\ checkWin(b, winner, 3) # Null
                             /\ checkWin(b, nextPlayer(winner), 3) = Null
                             /\ toMove(b) = nextPlayer(winner)},
               humanPlayer \in Player} :
           winner \in Player}

\* the states of a 3x3 game that is drawn
DrawnStates3 ==
    {[board |-> board, currentPlayer |-> "X",
      humanPlayer |-> humanPlayer, aiPlayer |-> nextPlayer(humanPlayer),
      status |-> "draw", winner |-> NoPlayer, winningCells |-> NoCells] :
        board \in {b \in TerminalBoards3 :
                      /\ ~hasEmptyCells(b)
                      /\ \A p \in Player : checkWin(b, p, 3) = Null},
        humanPlayer \in Player}

\* the states before the symbol is selected: of a fresh page, and after a
\* reset
SelectionStates3 ==
    {createGameState(3)}
        \cup {resetGameState(state, 3) : state \in DrawnStates3}

InitMoves ==
    /\ gameState \in PlayingStates3 \cup WonStates3 \cup DrawnStates3
                         \cup SelectionStates3
    /\ libraryCall = Null
    /\ libraryResult = Null
    /\ searchInput = Null
    /\ prunedResult = Null
    /\ unprunedResult = Null
    /\ useAlphaBetaPruning = TRUE
    /\ thinkingData = Null
    /\ isProcessingAIMove = FALSE
    /\ calculation = Null

\* makePlayerMove(index) of useGame(3); the state before it is kept with the
\* call
MakePlayerMove(index) ==
    /\ libraryCall = Null
    /\ gameState' = makePlayerMove(gameState, index, 3)
    /\ libraryCall' = [fn |-> "makePlayerMove", index |-> index,
                       prev |-> gameState]
    /\ UNCHANGED <<useAlphaBetaPruning, thinkingData, isProcessingAIMove,
                   calculation, searchInput, prunedResult, unprunedResult,
                   libraryResult>>

\* makeAIMove(index) of useGame(3)
MakeAIMove(index) ==
    /\ libraryCall = Null
    /\ gameState' = makeAIMove(gameState, index, 3)
    /\ libraryCall' = [fn |-> "makeAIMove", index |-> index,
                       prev |-> gameState]
    /\ UNCHANGED <<useAlphaBetaPruning, thinkingData, isProcessingAIMove,
                   calculation, searchInput, prunedResult, unprunedResult,
                   libraryResult>>

NextMoves ==
    \/ \E index \in 0..8 : MakePlayerMove(index)
    \/ \E index \in 0..8 : MakeAIMove(index)

SpecMoves == InitMoves /\ [][NextMoves]_vars

\* makePlayerMove or makeAIMove has been called
moved == libraryCall # Null

\* the call was made in a game in progress on the last empty cell, and the
\* mark completes a line of the mover
lastCellCompletesLine ==
    /\ moved
    /\ libraryCall.prev.status = "playing"
    /\ \A i \in DOMAIN libraryCall.prev.board :
          isEmptyCell(libraryCall.prev.board[i]) <=> i = libraryCall.index
    /\ completes([libraryCall.prev.board EXCEPT
                     ![libraryCall.index] = libraryCall.prev.currentPlayer],
                 libraryCall.prev.currentPlayer)

\* C33: a move that fills the last empty cell and completes a line of the
\* mover ends the game as won, with the mover as winner and a line of the
\* mover as winning cells, never as a draw: makePlayerMove and makeAIMove
\* test checkWin before checkDraw.
C33_LastCellWin ==
    lastCellCompletesLine =>
        /\ gameState.status = "won"
        /\ gameState.winner = libraryCall.prev.currentPlayer
        /\ gameState.board = [libraryCall.prev.board EXCEPT
                                 ![libraryCall.index] = libraryCall.prev.currentPlayer]
        /\ cellsOf(gameState.winningCells) \in CompleteLines3
        /\ \A cell \in cellsOf(gameState.winningCells) :
              gameState.board[cell] = gameState.winner

\* the human has won on the last empty cell
C33_Witness ==
    /\ lastCellCompletesLine
    /\ libraryCall.fn = "makePlayerMove"
    /\ gameState.status = "won"
    /\ gameState.winner = gameState.humanPlayer
    /\ ~hasEmptyCells(gameState.board)

\* the AI has won on the last empty cell
C33_AIWins ==
    /\ lastCellCompletesLine
    /\ libraryCall.fn = "makeAIMove"
    /\ gameState.status = "won"
    /\ gameState.winner = gameState.aiPlayer

\* the call was made in a state that is not 'playing', or on an occupied cell
rejectedMove ==
    /\ moved
    /\ \/ libraryCall.prev.status # "playing"
       \/ ~isEmptyCell(libraryCall.prev.board[libraryCall.index])

\* C37: a rejected move changes nothing: makePlayerMove and makeAIMove leave
\* board, currentPlayer, status, winner and winningCells (and the players) as
\* they were when status is not 'playing' or the cell is occupied; a game
\* that is won or drawn stays so.
C37_RejectedMoveChangesNothing ==
    rejectedMove =>
        /\ gameState.board = libraryCall.prev.board
        /\ gameState.currentPlayer = libraryCall.prev.currentPlayer
        /\ gameState.status = libraryCall.prev.status
        /\ gameState.winner = libraryCall.prev.winner
        /\ gameState.winningCells = libraryCall.prev.winningCells
        /\ gameState.humanPlayer = libraryCall.prev.humanPlayer
        /\ gameState.aiPlayer = libraryCall.prev.aiPlayer

\* a move on an empty cell of a won game has been rejected
C37_Witness ==
    /\ rejectedMove
    /\ libraryCall.prev.status = "won"
    /\ isEmptyCell(libraryCall.prev.board[libraryCall.index])
    /\ gameState.status = "won"
    /\ isEmptyCell(gameState.board[libraryCall.index])

\* a move on an occupied cell of a game in progress has been rejected
C37_Occupied ==
    /\ rejectedMove
    /\ libraryCall.prev.status = "playing"
    /\ gameState = libraryCall.prev

\* ------------------------------------------------------------------------
\* The page with its asynchronous AI move (app/page.tsx, useGame,
\* useAIPlayer): symbol selection, cell clicks, reset, grid-size change, and
\* the timers of calculateMove.  calculation holds the calculations in flight,
\* oldest first; libraryCall is the call of makeAIMove made in the last step,
\* Null when the step made none.  The two effects run after every render in
\* which gameState changed, in source order, before the next event or timer
\* is handled.
\* ------------------------------------------------------------------------

\* on the 4x4 board the human clicks only while fewer than MaxMarksClick4
\* cells are marked
MaxMarksClick4 == 0

\* reset and grid-size change are used while at most MaxMarksReset cells are
\* marked
MaxMarksReset == 1

\* a call makeAIMove(index) of the useGame(gridSize) render it was taken from,
\* for a move computed for board, in the state prev
aiMoveCall(index, gridSize, board, prev) ==
    [fn |-> "makeAIMove", index |-> index, gridSize |-> gridSize,
     board |-> board, prev |-> prev]

\* makeAIMove with any index: prev.board[index] is undefined beyond the board,
\* which is not a number
makeAIMoveAt(prev, index, gridSize) ==
    IF index \notin DOMAIN prev.board THEN prev
    ELSE makeAIMove(prev, index, gridSize)

\* the page after an event: the game state, the guard, the calculations in
\* flight, the makeAIMove call of the event
Page(state, processing, calculations, call) ==
    [gameState |-> state, isProcessingAIMove |-> processing,
     calculation |-> calculations, libraryCall |-> call]

\* the condition of the effect "Handle AI's first move when AI is X"
firstMoveDue(state, processing) ==
    /\ state.status = "playing"
    /\ state.currentPlayer = "X"
    /\ state.aiPlayer = "X"
    /\ allEmpty(state.board)
    /\ ~processing

\* the condition of the effect "Handle AI move after human move"
aiMoveDue(state, processing) ==
    /\ isAITurn(state)
    /\ state.aiPlayer # NoPlayer
    /\ state.humanPlayer # NoPlayer
    /\ ~allEmpty(state.board)
    /\ ~processing

\* The effects of the render of state: the first one plays a corner at once
\* (the render that follows meets neither condition: the board is not empty
\* and the turn is the human's); the second one sets the guard and calls
\* calculateMove, which schedules the search of the rendered board by the
\* AIPlayer of the rendered grid size and pruning flag.  The pages they can
\* lead to.
runEffects(state, processing, calculations, pruning, call) ==
    LET gridSize == gridSizeOf(state.board)
    IN  IF firstMoveDue(state, processing)
        THEN {Page(makeAIMove(state, cornerMove, gridSize), FALSE, calculations,
                   aiMoveCall(cornerMove, gridSize, state.board, state)) :
                 cornerMove \in getRandomCornerMove(gridSize, state.board)}
        ELSE IF aiMoveDue(state, processing)
        THEN {Page(state, TRUE,
                   Append(calculations,
                          [board |-> state.board, aiPlayer |-> state.aiPlayer,
                           humanPlayer |-> state.humanPlayer,
                           gridSize |-> gridSize,
                           useAlphaBetaPruning |-> pruning]),
                   call)}
        ELSE {Page(state, processing, calculations, call)}

\* the page after an event that leaves state: the effects run when gameState
\* changed
afterRender(state, processing, calculations, pruning, call) ==
    IF state = gameState
    THEN {Page(state, processing, calculations, call)}
    ELSE runEffects(state, processing, calculations, pruning, call)

\* the variables of the page take the values of page
becomes(page) ==
    /\ gameState' = page.gameState
    /\ isProcessingAIMove' = page.isProcessingAIMove
    /\ calculation' = page.calculation
    /\ libraryCall' = page.libraryCall

\* the pruning checkbox keeps its initial value, useState(true)
InitPage ==
    /\ gameState = createGameState(GRID_SIZE)
    /\ useAlphaBetaPruning = TRUE
    /\ thinkingData = Null
    /\ isProcessingAIMove = FALSE
    /\ calculation = <<>>
    /\ libraryCall = Null
    /\ libraryResult = Null
    /\ searchInput = Null
    /\ prunedResult = Null
    /\ unprunedResult = Null

\* SymbolSelector onSelect (selectSymbol), shown while status is
\* 'symbol-selection'
PageSelectSymbol(player) ==
    /\ gameState.status = "symbol-selection"
    /\ \E page \in afterRender(setPlayers(gameState, player),
                              isProcessingAIMove, calculation,
                              useAlphaBetaPruning, Null) :
          becomes(page)
    /\ UNCHANGED <<useAlphaBetaPruning, thinkingData, searchInput,
                   prunedResult, unprunedResult, libraryResult>>

\* handleCellClick on a cell of the board
PageCellClick(index) ==
    /\ isHumanTurn(gameState)
    /\ index \in DOMAIN gameState.board
    /\ gridSizeOf(gameState.board) = 4 =>
          Cardinality(marks(gameState.board)) < MaxMarksClick4
    /\ \E page \in afterRender(makePlayerMove(gameState, index,
                                              gridSizeOf(gameState.board)),
                              isProcessingAIMove, calculation,
                              useAlphaBetaPruning, Null) :
          becomes(page)
    /\ UNCHANGED <<useAlphaBetaPruning, thinkingData, searchInput,
                   prunedResult, unprunedResult, libraryResult>>

\* handleReset (ResetButton, GameOverModal): clearThinking, reset()
HandleReset ==
    /\ Cardinality(marks(gameState.board)) <= MaxMarksReset
    /\ thinkingData' = Null
    /\ \E page \in afterRender(resetGameState(gameState,
                                              gridSizeOf(gameState.board)),
                              isProcessingAIMove, calculation,
                              useAlphaBetaPruning, Null) :
          becomes(page)
    /\ UNCHANGED <<useAlphaBetaPruning, searchInput, prunedResult,
                   unprunedResult, libraryResult>>

\* handleGridSizeChange(size) of the ModeSelector (3 or 4): setGridSize,
\* clearThinking, reset(size)
HandleGridSizeChange(size) ==
    /\ size # gridSizeOf(gameState.board)
    /\ Cardinality(marks(gameState.board)) <= MaxMarksReset
    /\ thinkingData' = Null
    /\ \E page \in afterRender(resetGameState(gameState, size),
                              isProcessingAIMove, calculation,
                              useAlphaBetaPruning, Null) :
          becomes(page)
    /\ UNCHANGED <<useAlphaBetaPruning, searchInput, prunedResult,
                   unprunedResult, libraryResult>>

\* The timer of the oldest calculation fires: the search runs on the board
\* calculateMove was given, thinkingData is set, the promise resolves,
\* handleAIMove calls the makeAIMove of its render on the current game state
\* and clears the guard.
TimerFires ==
    /\ calculation # <<>>
    /\ LET c == Head(calculation)
       IN  \E result \in findBestMove(c.gridSize, c.useAlphaBetaPruning,
                                      c.board, c.aiPlayer, c.humanPlayer) :
              /\ thinkingData' = result.thinking
              /\ \E page \in afterRender(
                                 makeAIMoveAt(gameState, result.move, c.gridSize),
                                 FALSE, Tail(calculation), useAlphaBetaPruning,
                                 aiMoveCall(result.move, c.gridSize, c.board,
                                            gameState)) :
                    becomes(page)
    /\ UNCHANGED <<useAlphaBetaPruning, searchInput, prunedResult,
                   unprunedResult, libraryResult>>

NextPage ==
    \/ \E player \in Player : PageSelectSymbol(player)
    \/ \E index \in 0..15 : PageCellClick(index)
    \/ HandleReset
    \/ \E size \in {3, 4} : HandleGridSizeChange(size)
    \/ TimerFires

SpecPage == InitPage /\ [][NextPage]_vars

\* the last step called makeAIMove and the call placed a mark
aiMarkPlaced ==
    /\ libraryCall # Null
    /\ libraryCall.fn = "makeAIMove"
    /\ libraryCall.prev.status = "playing"
    /\ libraryCall.prev.currentPlayer # NoPlayer
    /\ libraryCall.index \in DOMAIN libraryCall.prev.board
    /\ isEmptyCell(libraryCall.prev.board[libraryCall.index])

\* C38: under every interleaving of clicks, resets, symbol selections and
\* grid-size changes with the asynchronous calculation, a mark placed through
\* makeAIMove is the AI's symbol and is the move computed for the board it is
\* placed on (so no result computed before a reset reaches the game started
\* after it), and at most one calculation is in flight.
C38_AIMoveForCurrentGame ==
    /\ Len(calculation) <= 1
    /\ aiMarkPlaced =>
          /\ libraryCall.prev.currentPlayer = libraryCall.prev.aiPlayer
          /\ libraryCall.board = libraryCall.prev.board
          /\ libraryCall.gridSize = gridSizeOf(libraryCall.prev.board)

\* C38, the part that holds: at most one calculation is in flight, and the
\* guard is set exactly while one is
C38_OneInFlight ==
    /\ Len(calculation) <= 1
    /\ isProcessingAIMove <=> calculation # <<>>

\* the number of cells of board that hold the mark of player
countOf(board, player) == Cardinality({i \in DOMAIN board : board[i] = player})

\* C34: X moves first and the marks alternate: in every reachable state of
\* the page the board holds as many X as O, or one X more.
C34_MarksAlternate ==
    countOf(gameState.board, "X") - countOf(gameState.board, "O") \in {0, 1}

\* C34 where no calculation outlives its game: the game of SpecGame, without
\* reset and grid-size change
C34_AlternateWithoutReset ==
    /\ countOf(gameState.board, "X") - countOf(gameState.board, "O") \in {0, 1}
    /\ gameState.status = "playing" =>
          gameState.currentPlayer = toMove(gameState.board)

\* the complete lines of the grid board belongs to
linesOf(board) == IF gridSizeOf(board) = 4 THEN CompleteLines4 ELSE CompleteLines3

\* some player holds every cell of a complete line of board
lineComplete(board) ==
    \E line \in linesOf(board), player \in Player :
        \A i \in line : board[i] = player

\* C36: the status agrees with the board in every reachable state of the
\* page: while playing no line is complete and a cell is empty; when won the
\* winner is a player and winningCells is a line that the winner holds in
\* full; when drawn the board is full and no line is complete.
C36_StatusMatchesBoard ==
    /\ gameState.status = "playing" =>
          /\ ~lineComplete(gameState.board)
          /\ hasEmptyCells(gameState.board)
    /\ gameState.status = "won" =>
          /\ gameState.winner \in Player
          /\ cellsOf(gameState.winningCells) \in linesOf(gameState.board)
          /\ \A i \in cellsOf(gameState.winningCells) :
                gameState.board[i] = gameState.winner
    /\ gameState.status = "draw" =>
          /\ ~hasEmptyCells(gameState.board)
          /\ ~lineComplete(gameState.board)

\* C36 witness: a game is won, the winner holding the line winningCells
C36_Witness ==
    /\ gameState.status = "won"
    /\ gameState.winner \in Player
    /\ \A i \in cellsOf(gameState.winningCells) :
          gameState.board[i] = gameState.winner

\* C36: a game won by the human, which takes a mark placed out of turn, and a
\* drawn game are reached too
C36_WonByHuman == gameState.status = "won" /\ gameState.winner = gameState.humanPlayer
C36_Drawn == gameState.status = "draw"

\* the step of TimerFires, told by what it does to the calculations in
\* flight: the oldest one is gone (no other action removes one)
timerFired == calculation # <<>> /\ calculation' = Tail(calculation)

\* The page with its timers: a timer set by calculateMove fires once it is
\* due, whatever the user does meanwhile.  The user is under no obligation.
SpecPageFair == SpecPage /\ WF_calculation(timerFired)

\* it is the AI's turn in a game in progress
aiTurn == gameState.status = "playing" /\ isAITurn(gameState)

\* C39: the game never stalls on the AI: whenever the game is in progress
\* and it is the AI's turn, the AI eventually places a mark, unless the user
\* ends the game first, given that the timers fire.
C39_AIEventuallyMoves == aiTurn ~> (aiMarkPlaced \/ ~aiTurn)

\* C39, its second part: the isProcessingAIMove guard never leaves an AI turn
\* without a pending calculation.
C39_AITurnHasCalculation == aiTurn => calculation # <<>>

\* the score the search gave to the root candidate at position
scoreAt(thinking, position) ==
    LET k == CHOOSE j \in DOMAIN thinking.evaluations :
                 thinking.evaluations[j].position = position
    IN  thinking.evaluations[k].score

\* the positions of the root candidates of a search
candidates(thinking) ==
    {thinking.evaluations[k].position : k \in DOMAIN thinking.evaluations}

\* C35: pruning refines nothing at the root: every root candidate gets the
\* same score with pruning enabled as with pruning disabled, so the
\* candidates tied for the best score are the same set.
C35_SameScorePerCandidate ==
    searched =>
        /\ candidates(prunedResult.thinking) = candidates(unprunedResult.thinking)
        /\ \A position \in candidates(prunedResult.thinking) :
              scoreAt(prunedResult.thinking, position)
                  = scoreAt(unprunedResult.thinking, position)
        /\ tiedCandidates(prunedResult.thinking)
              = tiedCandidates(unprunedResult.thinking)

\* C35 witness: pruning cut branches below the root, two candidates are
\* tied for best and a third one scores less, with the same scores both ways
C35_Witness ==
    /\ searched
    /\ prunedResult.thinking.branchesPruned > 0
    /\ Cardinality(tiedCandidates(prunedResult.thinking)) >= 2
    /\ tiedCandidates(prunedResult.thinking) # candidates(prunedResult.thinking)
    /\ \A position \in candidates(prunedResult.thinking) :
          scoreAt(prunedResult.thinking, position)
              = scoreAt(unprunedResult.thinking, position)

====
